---- MODULE Spec2Model ----
(***************************************************************************)
(* The terminal input engine of mychat: the escape-sequence decoder        *)
(* (tui/VtParser), the key-code space (tui/KeyCode.hpp), the event model   *)
(* (tui/InputEvent.hpp) and the part of TerminalInput::poll that drives    *)
(* the decoder.  Bytes are integers 0..255, strings are sequences of       *)
(* bytes, events are records.                                              *)
(***************************************************************************)
EXTENDS Integers, Sequences, FiniteSets, TLC

VARIABLES
    _state,          \* VtParser::_state
    _paramBuf,       \* VtParser::_paramBuf
    _utf8Buf,        \* VtParser::_utf8Buf
    _pasteBuf,       \* VtParser::_pasteBuf
    _utf8Remaining,  \* VtParser::_utf8Remaining
    stdin,           \* bytes the terminal has still to deliver on _fd
    fed,             \* history: every byte handed to feed() so far
    events,          \* the vector returned by the last poll()
    log,             \* history: all events returned so far, in order
    call,            \* history: the last call made on the decoder
    pre,             \* history: the decoder's members before the last call
    timedOut,        \* history: timeout() has been called
    escTimedOut,     \* history: timeout() has been called in state Escape
    _buffer,         \* InputField::_buffer
    _cursor,         \* InputField::_cursor
    _history,        \* InputField::_history
    _historyIndex,   \* InputField::_historyIndex
    _savedLine,      \* InputField::_savedLine
    _maxHistory,     \* InputField::_maxHistory
    _killRing,       \* InputField::_killRing
    _killRingIndex,  \* InputField::_killRingIndex
    _lastWasKill,    \* InputField::_lastWasKill
    _multiline,      \* InputField::_multiline
    _maxLines,       \* InputField::_maxLines
    todo,            \* calls the host has still to make on the field
    past,            \* history: every call made on the field so far
    made,            \* history: the last call made on the field
    action,          \* the InputFieldAction the last processEvent returned
    before,          \* history: the field's members before the last call
    earlier,         \* history: the field's members before the call before it
    _origTermios,    \* TerminalInput::_origTermios
    _rawMode,        \* TerminalInput::_rawMode
    _resizePipe,     \* TerminalInput::_resizePipe
    tty,             \* the terminal on stdin: whether it is one, its attributes
    fds,             \* the descriptors the process has open besides 0, 1, 2
    sys,             \* the system calls made by the last call on TerminalInput
    ioPast,          \* history: every call made on TerminalInput, with its result
    ioBefore,        \* history: TerminalInput's members before the last call
    stdout,          \* history: the sequences written to the terminal so far
    pc,              \* where the polling thread is in poll(), "idle" outside
    revents,         \* poll()'s fds[i].revents: the descriptors ::poll found readable
    collected,       \* poll()'s local vector events
    pipe,            \* number of marker bytes in the resize pipe
    winsize,         \* the dimensions TIOCGWINSZ reports: <<columns, rows>>
    woke,            \* history: marker bytes in the pipe when ::poll last returned
    drained,         \* history: marker bytes read by the poll() in progress or last
    unseen,          \* history: notifications written since the last size query
    notes            \* history: the arguments of every notifyResize so far

\* The decoder with the terminal it reads, and the editing buffer.
parserVars == <<_state, _paramBuf, _utf8Buf, _pasteBuf, _utf8Remaining,
                stdin, fed, events, log, call, pre, timedOut, escTimedOut>>

fieldVars == <<_buffer, _cursor, _history, _historyIndex, _savedLine,
               _maxHistory, _killRing, _killRingIndex, _lastWasKill,
               _multiline, _maxLines, past, made, action, before, earlier>>

pollVars == <<pc, revents, collected, pipe, winsize, woke, drained, unseen,
              notes>>

ioVars == <<_origTermios, _rawMode, _resizePipe, tty, fds, sys, ioPast,
            ioBefore, stdout, pollVars>>

vars == <<parserVars, fieldVars, todo, ioVars>>

-----------------------------------------------------------------------------
(* Bounds of the model *)

\* Longest pasted text of the bracketed-paste scripts.
MaxPaste == 3
\* Most tokens concatenated into one script of the general specification.
MaxTokens == 2
\* Most calls a host makes on the editing buffer in one behaviour.
MaxCalls == 4
\* Most calls a host makes on the history list in one behaviour.
MaxList == 5
\* Most pieces of the text that word motion is tried on.
MaxWord == 3
\* Most calls made on one TerminalInput in one behaviour.
MaxIo == 5

\* Most calls in a behaviour of submit cycles.
MaxCycle == 5

\* Most notifyResize calls in a behaviour.
MaxNotes == 2
\* Most events processed between two kills.
MaxBetween == 1
\* Most rounds of typing and killing, each pushing one kill-ring entry.
MaxRounds == 18
\* Most Up and Down keys pressed while browsing the history.
MaxNav == 5

-----------------------------------------------------------------------------
(* Integer helpers: the C++ bit operators on 32-bit values *)

RECURSIVE BitAndNat(_, _)
BitAndNat(a, b) ==
    IF a = 0 \/ b = 0 THEN 0
    ELSE (a % 2) * (b % 2) + 2 * BitAndNat(a \div 2, b \div 2)

\* a & b for an int a and a non-negative mask b; a negative a is read in two's
\* complement: a = ~(-a - 1), so a & b = b - ((-a - 1) & b).
BitAnd(a, b) ==
    IF a >= 0 THEN BitAndNat(a, b) ELSE b - BitAndNat((0 - a) - 1, b)

RECURSIVE BitOrNat(_, _)
BitOrNat(a, b) ==
    IF a = 0 THEN b
    ELSE IF b = 0 THEN a
    ELSE (IF a % 2 = 1 \/ b % 2 = 1 THEN 1 ELSE 0) + 2 * BitOrNat(a \div 2, b \div 2)

BitOr(a, b) == BitOrNat(a, b)

-----------------------------------------------------------------------------
(* tui/Modifier.hpp *)

ModNone == 0
ModShift == 1
ModAlt == 2
ModCtrl == 4
ModSuper == 8

hasModifier(mods, flag) == BitAnd(mods, flag) # ModNone

-----------------------------------------------------------------------------
(* tui/KeyCode.hpp *)

Enter == 65536
Tab == Enter + 1
Backspace == Enter + 2
Delete == Enter + 3
Escape == Enter + 4
Up == Enter + 5
Down == Enter + 6
Left == Enter + 7
Right == Enter + 8
Home == Enter + 9
End == Enter + 10
PageUp == Enter + 11
PageDown == Enter + 12
Insert == Enter + 13
F1 == Enter + 14
F2 == Enter + 15
F3 == Enter + 16
F4 == Enter + 17
F5 == Enter + 18
F6 == Enter + 19
F7 == Enter + 20
F8 == Enter + 21
F9 == Enter + 22
F10 == Enter + 23
F11 == Enter + 24
F12 == Enter + 25

SpecialKeys == Enter .. F12

isPrintable(key) == key < 65536 /\ key >= 32

keyCodeFromCodepoint(codepoint) == codepoint

codepointFromKeyCode(key) == IF isPrintable(key) THEN key ELSE 0

-----------------------------------------------------------------------------
(* tui/InputEvent.hpp *)

KeyEvent(k, m, cp) ==
    [type |-> "Key", key |-> k, modifiers |-> m, codepoint |-> cp]

MouseEvent(t, b, x, y, m) ==
    [type |-> "Mouse", mtype |-> t, button |-> b, x |-> x, y |-> y,
     modifiers |-> m]

ResizeEvent(columns, rows) ==
    [type |-> "Resize", columns |-> columns, rows |-> rows]

PasteEvent(text) == [type |-> "Paste", text |-> text]

-----------------------------------------------------------------------------
(* Bytes the decoder tests for *)

ESC == 27
LBracket == 91        \* '['
LetterO == 79         \* 'O'
Semicolon == 59       \* ';'
Less == 60            \* '<'
Greater == 62         \* '>'
Question == 63        \* '?'
Tilde == 126          \* '~'
Minus == 45           \* '-'
Digit0 == 48          \* '0'
LowerA == 97          \* 'a'

\* "\033[200~" and "\033[201~"
PasteStart == <<27, 91, 50, 48, 48, 126>>
PasteEnd == <<27, 91, 50, 48, 49, 126>>

-----------------------------------------------------------------------------
(* tui/VtParser.cpp, anonymous namespace *)

isDigit(b) == b >= 48 /\ b <= 57

\* Index of the first ';' of s, 0 when there is none.
FirstSemicolon(s) ==
    IF \E i \in 1..Len(s) : s[i] = Semicolon
    THEN CHOOSE i \in 1..Len(s) :
             s[i] = Semicolon /\ \A j \in 1..(i - 1) : s[j] # Semicolon
    ELSE 0

\* std::views::split(';') over a non-empty string.
RECURSIVE SplitParts(_)
SplitParts(s) ==
    LET i == FirstSemicolon(s)
    IN  IF i = 0 THEN <<s>>
        ELSE <<SubSeq(s, 1, i - 1)>> \o SplitParts(SubSeq(s, i + 1, Len(s)))

\* An empty string splits into no part at all.
SplitSemicolon(buf) == IF buf = <<>> THEN <<>> ELSE SplitParts(buf)

\* The longest prefix of s made of decimal digits.
DigitPrefix(s) ==
    LET n == IF \E i \in 1..Len(s) : ~isDigit(s[i])
             THEN (CHOOSE i \in 1..Len(s) :
                       ~isDigit(s[i]) /\ \A j \in 1..(i - 1) : isDigit(s[j])) - 1
             ELSE Len(s)
    IN  SubSeq(s, 1, n)

\* Accumulates decimal digits into a magnitude; -1 when the value leaves the
\* range of int (last is the largest final digit at magnitude 214748364x).
RECURSIVE Magnitude(_, _, _)
Magnitude(digits, acc, last) ==
    IF digits = <<>> THEN acc
    ELSE LET d == Head(digits) - Digit0
         IN  IF acc > 214748364 \/ (acc = 214748364 /\ d > last) THEN -1
             ELSE Magnitude(Tail(digits), acc * 10 + d, last)

\* std::from_chars(first, last, int&): an optional '-', then digits; trailing
\* characters are left unread.  ok is (ec == std::errc {}).
from_chars(sv) ==
    LET neg == sv # <<>> /\ Head(sv) = Minus
        digits == DigitPrefix(IF neg THEN Tail(sv) ELSE sv)
        mag == Magnitude(digits, 0, IF neg THEN 8 ELSE 7)
    IN  IF digits = <<>> \/ mag = -1 THEN [ok |-> FALSE, value |-> 0]
        ELSE [ok |-> TRUE, value |-> IF neg THEN 0 - mag ELSE mag]

parseCsiParams(buf) ==
    LET parts == SplitSemicolon(buf)
    IN  [i \in 1..Len(parts) |->
            LET r == from_chars(parts[i])
            IN  IF r.ok THEN r.value ELSE 0]

\* Mutant of decodeModifiers: the Alt and Ctrl bits are taken for each other.
decodeModifiersBitSwap(param) ==
    IF param <= 1 THEN ModNone
    ELSE LET bits == param - 1
         IN  BitOr(BitOr(IF BitAnd(bits, 1) # 0 THEN ModShift ELSE ModNone,
                         IF BitAnd(bits, 4) # 0 THEN ModAlt ELSE ModNone),
                   BitOr(IF BitAnd(bits, 2) # 0 THEN ModCtrl ELSE ModNone,
                         IF BitAnd(bits, 8) # 0 THEN ModSuper ELSE ModNone))

decodeModifiers(param) ==
    IF param <= 1 THEN ModNone
    ELSE LET bits == param - 1
         IN  BitOr(BitOr(IF BitAnd(bits, 1) # 0 THEN ModShift ELSE ModNone,
                         IF BitAnd(bits, 2) # 0 THEN ModAlt ELSE ModNone),
                   BitOr(IF BitAnd(bits, 4) # 0 THEN ModCtrl ELSE ModNone,
                         IF BitAnd(bits, 8) # 0 THEN ModSuper ELSE ModNone))

\* Mutant of TildeKey: the function keys numbered without the gaps at 16
\* and 22.
TildeKeyContiguous(n) ==
    CASE n = 1 -> Home
      [] n = 2 -> Insert
      [] n = 3 -> Delete
      [] n = 4 -> End
      [] n = 5 -> PageUp
      [] n = 6 -> PageDown
      [] n >= 11 /\ n <= 22 -> F1 + (n - 11)
      [] OTHER -> 0

\* The key of "CSI params[0] ~", 0 when the table has none.
TildeKey(n) ==
    CASE n = 1 -> Home
      [] n = 2 -> Insert
      [] n = 3 -> Delete
      [] n = 4 -> End
      [] n = 5 -> PageUp
      [] n = 6 -> PageDown
      [] n = 11 -> F1
      [] n = 12 -> F2
      [] n = 13 -> F3
      [] n = 14 -> F4
      [] n = 15 -> F5
      [] n = 17 -> F6
      [] n = 18 -> F7
      [] n = 19 -> F8
      [] n = 20 -> F9
      [] n = 21 -> F10
      [] n = 23 -> F11
      [] n = 24 -> F12
      [] OTHER -> 0

\* std::optional<KeyEvent> as a sequence of at most one event.
mapCsiKey(finalByte, params) ==
    LET modifier == IF Len(params) >= 2 THEN decodeModifiers(params[2])
                    ELSE ModNone
    IN  CASE finalByte = 65 -> <<KeyEvent(Up, modifier, 0)>>
          [] finalByte = 66 -> <<KeyEvent(Down, modifier, 0)>>
          [] finalByte = 67 -> <<KeyEvent(Right, modifier, 0)>>
          [] finalByte = 68 -> <<KeyEvent(Left, modifier, 0)>>
          [] finalByte = 72 -> <<KeyEvent(Home, modifier, 0)>>
          [] finalByte = 70 -> <<KeyEvent(End, modifier, 0)>>
          [] finalByte = Tilde ->
                IF params = <<>> \/ TildeKey(params[1]) = 0 THEN <<>>
                ELSE <<KeyEvent(TildeKey(params[1]), modifier, 0)>>
          [] OTHER -> <<>>

-----------------------------------------------------------------------------
(* tui/VtParser.cpp: the decoder.  A decoder value p is the record of the   *)
(* members together with the events vector the running call appends to.    *)

Emit(p, e) == [p EXCEPT !.events = Append(@, e)]

emitCodepoint(p, cp) == Emit(p, KeyEvent(keyCodeFromCodepoint(cp), ModNone, cp))

\* Mutant of Utf8Value: the lead byte of a 4-byte sequence is shifted by 12
\* bits, as in a 3-byte sequence.
Utf8ValueShortShift(bytes) ==
    LET len == Len(bytes)
    IN  IF len = 2
        THEN BitOr(BitAnd(bytes[1], 31) * 64, BitAnd(bytes[2], 63))
        ELSE IF len = 3
        THEN BitOr(BitOr(BitAnd(bytes[1], 15) * 4096, BitAnd(bytes[2], 63) * 64),
                   BitAnd(bytes[3], 63))
        ELSE IF len = 4
        THEN BitOr(BitOr(BitAnd(bytes[1], 7) * 4096,
                         BitAnd(bytes[2], 63) * 4096),
                   BitOr(BitAnd(bytes[3], 63) * 64, BitAnd(bytes[4], 63)))
        ELSE 0

\* The scalar value the bytes of _utf8Buf decode to.
Utf8Value(bytes) ==
    LET len == Len(bytes)
    IN  IF len = 2
        THEN BitOr(BitAnd(bytes[1], 31) * 64, BitAnd(bytes[2], 63))
        ELSE IF len = 3
        THEN BitOr(BitOr(BitAnd(bytes[1], 15) * 4096, BitAnd(bytes[2], 63) * 64),
                   BitAnd(bytes[3], 63))
        ELSE IF len = 4
        THEN BitOr(BitOr(BitAnd(bytes[1], 7) * 262144,
                         BitAnd(bytes[2], 63) * 4096),
                   BitOr(BitAnd(bytes[3], 63) * 64, BitAnd(bytes[4], 63)))
        ELSE 0

emitUtf8(p) ==
    LET cp == Utf8Value(p.utf8Buf)
    IN  IF cp # 0 THEN Emit(p, KeyEvent(keyCodeFromCodepoint(cp), ModNone, cp))
        ELSE p

processGround(p, byte) ==
    IF byte = ESC THEN [p EXCEPT !.state = "Escape"]
    ELSE IF byte < 32 THEN
        IF byte = 13 \/ byte = 10 THEN Emit(p, KeyEvent(Enter, ModNone, 0))
        ELSE IF byte = 9 THEN Emit(p, KeyEvent(Tab, ModNone, 0))
        ELSE IF byte = 127 \/ byte = 8 THEN Emit(p, KeyEvent(Backspace, ModNone, 0))
        ELSE LET cp == byte + LowerA - 1
             IN  Emit(p, KeyEvent(keyCodeFromCodepoint(cp), ModCtrl, cp))
    ELSE IF byte = 127 THEN Emit(p, KeyEvent(Backspace, ModNone, 0))
    ELSE IF BitAnd(byte, 128) # 0 THEN
        LET q == [p EXCEPT !.utf8Buf = <<byte>>]
        IN  IF BitAnd(byte, 224) = 192
            THEN [q EXCEPT !.utf8Remaining = 1, !.state = "Utf8Sequence"]
            ELSE IF BitAnd(byte, 240) = 224
            THEN [q EXCEPT !.utf8Remaining = 2, !.state = "Utf8Sequence"]
            ELSE IF BitAnd(byte, 248) = 240
            THEN [q EXCEPT !.utf8Remaining = 3, !.state = "Utf8Sequence"]
            ELSE q
    ELSE emitCodepoint(p, byte)

\* Mutant of processEscape: the byte that ends the wait is dropped.
processEscapeDropsByte(p, byte) ==
    IF byte = LBracket THEN [p EXCEPT !.paramBuf = <<>>, !.state = "CsiEntry"]
    ELSE IF byte = LetterO THEN [p EXCEPT !.state = "Ss3"]
    ELSE IF byte = 13 \/ byte = 10
    THEN [Emit(p, KeyEvent(Enter, ModAlt, 0)) EXCEPT !.state = "Ground"]
    ELSE IF byte >= 32 /\ byte < 127
    THEN [Emit(p, KeyEvent(keyCodeFromCodepoint(byte), ModAlt, byte))
             EXCEPT !.state = "Ground"]
    ELSE [Emit(p, KeyEvent(Escape, ModNone, 0)) EXCEPT !.state = "Ground"]

processEscape(p, byte) ==
    IF byte = LBracket THEN [p EXCEPT !.paramBuf = <<>>, !.state = "CsiEntry"]
    ELSE IF byte = LetterO THEN [p EXCEPT !.state = "Ss3"]
    ELSE IF byte = 13 \/ byte = 10
    THEN [Emit(p, KeyEvent(Enter, ModAlt, 0)) EXCEPT !.state = "Ground"]
    ELSE IF byte >= 32 /\ byte < 127
    THEN [Emit(p, KeyEvent(keyCodeFromCodepoint(byte), ModAlt, byte))
             EXCEPT !.state = "Ground"]
    ELSE processGround(
             [Emit(p, KeyEvent(Escape, ModNone, 0)) EXCEPT !.state = "Ground"],
             byte)

\* Mutant of SgrMouse: row and column are taken in the wrong order.
SgrMouseSwapped(params, finalByte) ==
    LET rawButton == params[1]
        x == params[3]
        y == params[2]
        isRelease == (finalByte = 109)
        mods == BitOr(BitOr(IF BitAnd(rawButton, 4) # 0 THEN ModShift ELSE ModNone,
                            IF BitAnd(rawButton, 8) # 0 THEN ModAlt ELSE ModNone),
                      IF BitAnd(rawButton, 16) # 0 THEN ModCtrl ELSE ModNone)
        buttonBits == BitAnd(rawButton, 67)
    IN  IF buttonBits = 64 THEN MouseEvent("ScrollUp", 0, x, y, mods)
        ELSE IF buttonBits = 65 THEN MouseEvent("ScrollDown", 0, x, y, mods)
        ELSE IF BitAnd(rawButton, 32) # 0
        THEN MouseEvent("Move", BitAnd(buttonBits, 3), x, y, mods)
        ELSE IF isRelease
        THEN MouseEvent("Release", BitAnd(buttonBits, 3), x, y, mods)
        ELSE MouseEvent("Press", BitAnd(buttonBits, 3), x, y, mods)

\* The Mouse event of an SGR report with at least three parameters.
SgrMouse(params, finalByte) ==
    LET rawButton == params[1]
        x == params[2]
        y == params[3]
        isRelease == (finalByte = 109)
        mods == BitOr(BitOr(IF BitAnd(rawButton, 4) # 0 THEN ModShift ELSE ModNone,
                            IF BitAnd(rawButton, 8) # 0 THEN ModAlt ELSE ModNone),
                      IF BitAnd(rawButton, 16) # 0 THEN ModCtrl ELSE ModNone)
        buttonBits == BitAnd(rawButton, 67)
    IN  IF buttonBits = 64 THEN MouseEvent("ScrollUp", 0, x, y, mods)
        ELSE IF buttonBits = 65 THEN MouseEvent("ScrollDown", 0, x, y, mods)
        ELSE IF BitAnd(rawButton, 32) # 0
        THEN MouseEvent("Move", BitAnd(buttonBits, 3), x, y, mods)
        ELSE IF isRelease
        THEN MouseEvent("Release", BitAnd(buttonBits, 3), x, y, mods)
        ELSE MouseEvent("Press", BitAnd(buttonBits, 3), x, y, mods)

\* The events of "CSI params u" (Kitty keyboard protocol).
CsiU(paramBuf) ==
    LET params == parseCsiParams(paramBuf)
        keycode == IF params = <<>> THEN 0 ELSE params[1]
        modifier == IF Len(params) >= 2 THEN decodeModifiers(params[2])
                    ELSE ModNone
    IN  IF keycode = 13 THEN <<KeyEvent(Enter, modifier, 0)>>
        ELSE IF keycode = 9 THEN <<KeyEvent(Tab, modifier, 0)>>
        ELSE IF keycode = 127 THEN <<KeyEvent(Backspace, modifier, 0)>>
        ELSE IF keycode = 27 THEN <<KeyEvent(Escape, modifier, 0)>>
        ELSE IF keycode >= 32 /\ keycode < 65536
        THEN <<KeyEvent(keyCodeFromCodepoint(keycode), modifier, keycode)>>
        ELSE <<>>

dispatchCsi(p, finalByte) ==
    IF p.paramBuf # <<>> /\ p.paramBuf[1] = Less
       /\ (finalByte = 77 \/ finalByte = 109)
    THEN LET params == parseCsiParams(Tail(p.paramBuf))
         IN  IF Len(params) >= 3 THEN Emit(p, SgrMouse(params, finalByte))
             ELSE p
    ELSE IF finalByte = Tilde /\ p.paramBuf = <<50, 48, 48>>
    THEN [p EXCEPT !.pasteBuf = <<>>, !.state = "PasteBody"]
    ELSE IF finalByte = 117
    THEN [p EXCEPT !.events = @ \o CsiU(p.paramBuf)]
    ELSE IF p.paramBuf # <<>>
            /\ (p.paramBuf[1] = Greater \/ p.paramBuf[1] = Question)
    THEN p
    ELSE [p EXCEPT !.events = @ \o mapCsiKey(finalByte, parseCsiParams(p.paramBuf))]

\* Mutant of processCsi: an unexpected byte is skipped and the sequence
\* goes on.
processCsiSkipsUnexpected(p, byte) ==
    IF isDigit(byte) \/ byte = Semicolon \/ byte = Less \/ byte = Greater
       \/ byte = Question
    THEN [p EXCEPT !.paramBuf = Append(@, byte), !.state = "CsiParam"]
    ELSE IF byte >= 64 /\ byte <= 126
    THEN LET q == dispatchCsi(p, byte)
         IN  IF q.state = "CsiEntry" \/ q.state = "CsiParam"
             THEN [q EXCEPT !.state = "Ground"]
             ELSE q
    ELSE IF byte >= 32 /\ byte <= 47
    THEN [p EXCEPT !.paramBuf = Append(@, byte)]
    ELSE p

processCsi(p, byte) ==
    IF isDigit(byte) \/ byte = Semicolon \/ byte = Less \/ byte = Greater
       \/ byte = Question
    THEN [p EXCEPT !.paramBuf = Append(@, byte), !.state = "CsiParam"]
    ELSE IF byte >= 64 /\ byte <= 126
    THEN LET q == dispatchCsi(p, byte)
         IN  IF q.state = "CsiEntry" \/ q.state = "CsiParam"
             THEN [q EXCEPT !.state = "Ground"]
             ELSE q
    ELSE IF byte >= 32 /\ byte <= 47
    THEN [p EXCEPT !.paramBuf = Append(@, byte)]
    ELSE [p EXCEPT !.state = "Ground"]

processSs3(p, byte) ==
    LET q == [p EXCEPT !.state = "Ground"]
    IN  CASE byte = 65 -> Emit(q, KeyEvent(Up, ModNone, 0))
          [] byte = 66 -> Emit(q, KeyEvent(Down, ModNone, 0))
          [] byte = 67 -> Emit(q, KeyEvent(Right, ModNone, 0))
          [] byte = 68 -> Emit(q, KeyEvent(Left, ModNone, 0))
          [] byte = 72 -> Emit(q, KeyEvent(Home, ModNone, 0))
          [] byte = 70 -> Emit(q, KeyEvent(End, ModNone, 0))
          [] byte = 80 -> Emit(q, KeyEvent(F1, ModNone, 0))
          [] byte = 81 -> Emit(q, KeyEvent(F2, ModNone, 0))
          [] byte = 82 -> Emit(q, KeyEvent(F3, ModNone, 0))
          [] byte = 83 -> Emit(q, KeyEvent(F4, ModNone, 0))
          [] OTHER -> q

\* std::string::ends_with
EndsWith(s, suffix) ==
    Len(s) >= Len(suffix)
    /\ SubSeq(s, Len(s) - Len(suffix) + 1, Len(s)) = suffix

\* Mutant of processPaste: the end marker is left on the pasted text.
processPasteKeepsMarker(p, byte) ==
    LET buf == Append(p.pasteBuf, byte)
    IN  IF Len(buf) >= Len(PasteEnd) /\ EndsWith(buf, PasteEnd)
        THEN [Emit(p, PasteEvent(buf)) EXCEPT !.pasteBuf = <<>>, !.state = "Ground"]
        ELSE [p EXCEPT !.pasteBuf = buf]

\* Mutant of processPaste: the text is copied into the event and stays in the
\* buffer.
processPasteKeepsText(p, byte) ==
    LET buf == Append(p.pasteBuf, byte)
        text == SubSeq(buf, 1, Len(buf) - Len(PasteEnd))
    IN  IF Len(buf) >= Len(PasteEnd) /\ EndsWith(buf, PasteEnd)
        THEN [Emit(p, PasteEvent(text)) EXCEPT !.pasteBuf = text, !.state = "Ground"]
        ELSE [p EXCEPT !.pasteBuf = buf]

processPaste(p, byte) ==
    LET buf == Append(p.pasteBuf, byte)
    IN  IF Len(buf) >= Len(PasteEnd) /\ EndsWith(buf, PasteEnd)
        THEN [Emit(p, PasteEvent(SubSeq(buf, 1, Len(buf) - Len(PasteEnd))))
                 EXCEPT !.pasteBuf = <<>>, !.state = "Ground"]
        ELSE [p EXCEPT !.pasteBuf = buf]

processUtf8(p, byte) ==
    IF BitAnd(byte, 192) # 128
    THEN processGround([p EXCEPT !.utf8Buf = <<>>, !.state = "Ground"], byte)
    ELSE LET q == [p EXCEPT !.utf8Buf = Append(@, byte),
                            !.utf8Remaining = @ - 1]
         IN  IF q.utf8Remaining = 0
             THEN [emitUtf8(q) EXCEPT !.utf8Buf = <<>>, !.state = "Ground"]
             ELSE q

\* One iteration of feed()'s loop: the switch on _state.
feedByte(p, byte) ==
    CASE p.state = "Ground" -> processGround(p, byte)
      [] p.state = "Escape" -> processEscape(p, byte)
      [] p.state \in {"CsiEntry", "CsiParam"} -> processCsi(p, byte)
      [] p.state = "Ss3" -> processSs3(p, byte)
      [] p.state = "PasteBody" -> processPaste(p, byte)
      [] p.state = "Utf8Sequence" -> processUtf8(p, byte)

RECURSIVE feedLoop(_, _)
feedLoop(p, data) ==
    IF data = <<>> THEN p ELSE feedLoop(feedByte(p, Head(data)), Tail(data))

\* Mutant of feed: every call starts over from Ground.
feedFromGround(p, data) ==
    feedLoop([p EXCEPT !.events = <<>>, !.state = "Ground"], data)

\* feed(data): a fresh events vector, then the loop over the bytes of data.
feed(p, data) == feedLoop([p EXCEPT !.events = <<>>], data)

\* Mutant of timeout: the Escape key is emitted, the state is left as it is.
timeoutKeepsState(p) ==
    LET q == [p EXCEPT !.events = <<>>]
    IN  IF q.state = "Escape" THEN Emit(q, KeyEvent(Escape, ModNone, 0)) ELSE q

\* Mutant of timeout: any unfinished sequence is given up.
timeoutAbortsSequence(p) ==
    LET q == [p EXCEPT !.events = <<>>]
    IN  IF q.state = "Escape"
        THEN [Emit(q, KeyEvent(Escape, ModNone, 0)) EXCEPT !.state = "Ground"]
        ELSE [q EXCEPT !.state = "Ground"]

\* timeout(): a fresh events vector; a pending bare ESC becomes Key(Escape).
timeout(p) ==
    LET q == [p EXCEPT !.events = <<>>]
    IN  IF q.state = "Escape"
        THEN [Emit(q, KeyEvent(Escape, ModNone, 0)) EXCEPT !.state = "Ground"]
        ELSE q

\* The members of a decoder right after construction.
\* InputField::MaxKillRing
MaxKillRing == 16

\* The members of a default-constructed InputField.
NewField ==
    [buffer |-> <<>>, cursor |-> 0, history |-> <<>>, historyIndex |-> 0,
     savedLine |-> <<>>, maxHistory |-> 100, killRing |-> <<>>,
     killRingIndex |-> 0, lastWasKill |-> FALSE, multiline |-> FALSE,
     maxLines |-> 0]

NewParser ==
    [state |-> "Ground", paramBuf |-> <<>>, utf8Buf |-> <<>>,
     pasteBuf |-> <<>>, utf8Remaining |-> 0, events |-> <<>>]

-----------------------------------------------------------------------------
(* tui/TerminalInput.cpp: poll() driving the decoder *)

\* Size of the buffer poll() reads stdin into.
ReadBufSize == 512

\* The host's loop over the events poll() returned: each one is passed to
\* InputField::processEvent.
Handed(evs) == [i \in 1..Len(evs) |-> [op |-> "processEvent", event |-> evs[i]]]

\* The decoder as the members hold it.
Self ==
    [state |-> _state, paramBuf |-> _paramBuf, utf8Buf |-> _utf8Buf,
     pasteBuf |-> _pasteBuf, utf8Remaining |-> _utf8Remaining,
     events |-> <<>>]

\* The members after a call that left the decoder as q.
Install(q) ==
    /\ _state' = q.state
    /\ _paramBuf' = q.paramBuf
    /\ _utf8Buf' = q.utf8Buf
    /\ _pasteBuf' = q.pasteBuf
    /\ _utf8Remaining' = q.utf8Remaining

Min(a, b) == IF a <= b THEN a ELSE b

\* poll(): stdin is readable, read() returns its next n bytes, which are fed.
PollStdin ==
    \E n \in 1..Min(Len(stdin), ReadBufSize) :
        LET data == SubSeq(stdin, 1, n)
            q == feed(Self, data)
        IN  /\ Install(q)
            /\ stdin' = SubSeq(stdin, n + 1, Len(stdin))
            /\ fed' = fed \o data
            /\ events' = q.events
            /\ log' = log \o q.events
            /\ call' = [op |-> "feed", data |-> data]
            /\ pre' = Self
            /\ todo' = todo \o Handed(q.events)
            /\ UNCHANGED <<timedOut, escTimedOut, fieldVars, ioVars>>

\* poll(): ::poll returned 0, no descriptor became ready; timeout() is called.
PollTimeout ==
    /\ LET q == timeout(Self)
       IN  /\ Install(q)
           /\ events' = q.events
           /\ log' = log \o q.events
           /\ todo' = todo \o Handed(q.events)
    /\ call' = [op |-> "timeout", data |-> <<>>]
    /\ pre' = Self
    /\ timedOut' = TRUE
    /\ escTimedOut' = (escTimedOut \/ _state = "Escape")
    /\ UNCHANGED <<stdin, fed, fieldVars, ioVars>>

\* poll(): ::poll failed, or read() returned nothing: no event, the decoder
\* is not called.
PollError ==
    /\ events' = <<>>
    /\ call' = [op |-> "none", data |-> <<>>]
    /\ pre' = Self
    /\ UNCHANGED <<_state, _paramBuf, _utf8Buf, _pasteBuf, _utf8Remaining,
                   stdin, fed, log, timedOut, escTimedOut, fieldVars, todo,
                   ioVars>>

Next == PollStdin \/ PollTimeout \/ PollError

-----------------------------------------------------------------------------
(* tui/TerminalInput.cpp: initialize() and shutdown().  A value t holds the *)
(* members of a TerminalInput together with what its system calls act on:  *)
(* the terminal on stdin, the descriptors of the process, and the list of  *)
(* system calls made so far by the call in progress.                       *)

\* The sequences written to the terminal.
EnableCsiU == <<27, 91, 62, 57, 117>>                           \* ESC [ > 9 u
DisableCsiU == <<27, 91, 60, 117>>                              \* ESC [ < u
EnableSgrMouse == <<27, 91, 63, 49, 48, 48, 54, 104>>           \* ESC [ ? 1006 h
DisableSgrMouse == <<27, 91, 63, 49, 48, 48, 54, 108>>          \* ESC [ ? 1006 l
EnableMouseTracking == <<27, 91, 63, 49, 48, 48, 48, 104>>      \* ESC [ ? 1000 h
DisableMouseTracking == <<27, 91, 63, 49, 48, 48, 48, 108>>     \* ESC [ ? 1000 l
EnableBracketedPaste == <<27, 91, 63, 50, 48, 48, 52, 104>>     \* ESC [ ? 2004 h
DisableBracketedPaste == <<27, 91, 63, 50, 48, 48, 52, 108>>    \* ESC [ ? 2004 l

\* struct termios, as far as the code reads and writes it: the local flags
\* and the two control characters.  Cooked is the mode of a terminal left
\* alone, Zeroed the value-initialised member.
Cooked == [lflag |-> {"ICANON", "ECHO", "ISIG", "IEXTEN"}, vmin |-> 1, vtime |-> 0]

Zeroed == [lflag |-> {}, vmin |-> 0, vtime |-> 0]

\* raw.c_lflag &= ~(ICANON | ECHO | ISIG); raw.c_cc[VMIN] = 0; raw.c_cc[VTIME] = 0
RawOf(attrs) ==
    [attrs EXCEPT !.lflag = @ \ {"ICANON", "ECHO", "ISIG"}, !.vmin = 0,
                  !.vtime = 0]

\* The members of a default-constructed TerminalInput.
NewTerminalInput ==
    [origTermios |-> Zeroed, rawMode |-> FALSE, resizePipe |-> <<-1, -1>>]

\* A system call with its argument.
SysCall(name, arg) == [call |-> name, arg |-> arg]

Tell(t, name, arg) == [t EXCEPT !.sys = Append(@, SysCall(name, arg))]

\* write(STDOUT_FILENO, data, strlen(data)); the result is not looked at.
Write(t, data) == Tell(t, "write", data)

\* tcgetattr(_fd, &_origTermios): fails, leaving the member alone, when
\* stdin is no terminal.
TcGetAttr(t) ==
    Tell(IF t.tty.istty THEN [t EXCEPT !.origTermios = t.tty.attrs] ELSE t,
         "tcgetattr", 0)

\* tcsetattr(_fd, TCSAFLUSH, &attrs): fails when stdin is no terminal.
TcSetAttr(t, attrs) ==
    Tell(IF t.tty.istty THEN [t EXCEPT !.tty.attrs = attrs] ELSE t,
         "tcsetattr", attrs)

\* close(fd)
Close(t, fd) == Tell([t EXCEPT !.fds = @ \ {fd}], "close", fd)

\* The lowest descriptor that is not open; 0, 1 and 2 always are.
LowestFree(open) ==
    CHOOSE fd \in 3..(3 + Cardinality(open)) :
        fd \notin open /\ \A lower \in 3..(fd - 1) : lower \in open

enableRawMode(t) ==
    LET got == TcGetAttr(t)
    IN  [TcSetAttr(got, RawOf(got.origTermios)) EXCEPT !.rawMode = TRUE]

\* Mutant of disableRawMode: the flag is left set.
disableRawModeKeepsFlag(t) ==
    IF t.rawMode THEN TcSetAttr(t, t.origTermios) ELSE t

disableRawMode(t) ==
    IF t.rawMode
    THEN [TcSetAttr(t, t.origTermios) EXCEPT !.rawMode = FALSE]
    ELSE t

\* Mutant of enableProtocols: SGR mouse before basic mouse tracking.
enableProtocolsSgrFirst(t) ==
    Write(Write(Write(Write(t, EnableCsiU), EnableSgrMouse),
                EnableMouseTracking), EnableBracketedPaste)

enableProtocols(t) ==
    Write(Write(Write(Write(t, EnableCsiU), EnableMouseTracking),
                EnableSgrMouse), EnableBracketedPaste)

\* Mutant of disableProtocols: the order of enableProtocols.
disableProtocolsInEnablingOrder(t) ==
    Write(Write(Write(Write(t, DisableCsiU), DisableMouseTracking),
                DisableSgrMouse), DisableBracketedPaste)

disableProtocols(t) ==
    Write(Write(Write(Write(t, DisableBracketedPaste), DisableSgrMouse),
                DisableMouseTracking), DisableCsiU)

\* initialize(); pipeOk tells whether pipe() can create its descriptors.
initialize(t, pipeOk) ==
    IF ~pipeOk
    THEN [Tell(t, "pipe", <<-1, -1>>) EXCEPT !.result = "IoError"]
    ELSE LET readEnd == LowestFree(t.fds)
             writeEnd == LowestFree(t.fds \cup {readEnd})
             piped == [Tell(t, "pipe", <<readEnd, writeEnd>>) EXCEPT
                          !.resizePipe = <<readEnd, writeEnd>>,
                          !.fds = @ \cup {readEnd, writeEnd}]
             nonBlocking == Tell(Tell(piped, "fcntl", readEnd), "fcntl", readEnd)
         IN  [enableProtocols(enableRawMode(nonBlocking)) EXCEPT
                 !.result = "ok"]

shutdown(t) ==
    LET restored == IF t.rawMode THEN disableRawMode(disableProtocols(t))
                    ELSE t
        closed == IF restored.resizePipe[1] # -1
                  THEN [Close(Close(restored, restored.resizePipe[1]),
                              restored.resizePipe[2]) EXCEPT
                           !.resizePipe = <<-1, -1>>]
                  ELSE restored
    IN  [closed EXCEPT !.result = "void"]

\* The sequences that the system calls in calls write to the terminal.
WritesOf(calls) ==
    LET writes == SelectSeq(calls, LAMBDA c : c.call = "write")
    IN  [i \in 1..Len(writes) |-> writes[i].arg]

\* The TerminalInput as the members hold it, about to make a call.
SelfTerminal ==
    [origTermios |-> _origTermios, rawMode |-> _rawMode,
     resizePipe |-> _resizePipe, tty |-> tty, fds |-> fds, sys |-> <<>>,
     result |-> "void"]

\* The members as a value of their own.
MembersOf(t) ==
    [origTermios |-> t.origTermios, rawMode |-> t.rawMode,
     resizePipe |-> t.resizePipe]

\* The members and the surroundings after the call op that ended as t.
InstallTerminal(t, op) ==
    /\ _origTermios' = t.origTermios
    /\ _rawMode' = t.rawMode
    /\ _resizePipe' = t.resizePipe
    /\ tty' = t.tty
    /\ fds' = t.fds
    /\ sys' = t.sys
    /\ ioPast' = Append(ioPast, [op |-> op, result |-> t.result])
    /\ ioBefore' = MembersOf(SelfTerminal)
    /\ stdout' = stdout \o WritesOf(t.sys)
    /\ UNCHANGED <<parserVars, fieldVars, todo, pollVars>>

\* The destructor has run: the object takes no further call.
Destroyed == ioPast # <<>> /\ ioPast[Len(ioPast)].op = "~TerminalInput"

CanCall == ~Destroyed /\ Len(ioPast) < MaxIo

Initialize ==
    /\ CanCall
    /\ \E pipeOk \in BOOLEAN :
           InstallTerminal(initialize(SelfTerminal, pipeOk), "initialize")

Shutdown ==
    /\ CanCall
    /\ InstallTerminal(shutdown(SelfTerminal), "shutdown")

\* ~TerminalInput(): shutdown() is called.
Destroy ==
    /\ CanCall
    /\ InstallTerminal(shutdown(SelfTerminal), "~TerminalInput")

NextIo == Initialize \/ Shutdown \/ Destroy

\* A freshly constructed TerminalInput; stdin is a terminal in its usual
\* mode, or is none.
StartTerminal(istty) ==
    /\ _origTermios = NewTerminalInput.origTermios
    /\ _rawMode = NewTerminalInput.rawMode
    /\ _resizePipe = NewTerminalInput.resizePipe
    /\ tty = [istty |-> istty, attrs |-> Cooked]
    /\ fds = {}
    /\ sys = <<>>
    /\ ioPast = <<>>
    /\ ioBefore = NewTerminalInput
    /\ stdout = <<>>
    /\ pc = "idle"
    /\ revents = {}
    /\ collected = <<>>
    /\ pipe = 0
    /\ winsize = <<80, 24>>
    /\ woke = 0
    /\ drained = 0
    /\ unseen = 0
    /\ notes = <<>>

-----------------------------------------------------------------------------
(* tui/TerminalInput.cpp: poll() with the resize pipe, one system call at a *)
(* step, and notifyResize(), which runs in the signal handler at any time.  *)

\* What the polling thread leaves alone outside poll()'s return.
decoderHistory == <<fed, events, log, call, pre, timedOut, escTimedOut>>

decoderMembers == <<_state, _paramBuf, _utf8Buf, _pasteBuf, _utf8Remaining>>

terminalVars == <<_origTermios, _rawMode, _resizePipe, tty, fds, sys, ioPast,
                  ioBefore, stdout>>

\* notifyResize(cols, rows): one marker byte goes into the pipe.
NotifyResize ==
    /\ Len(notes) < MaxNotes
    /\ \E size \in {<<0, 0>>, <<100, 30>>} :
           /\ notes' = Append(notes, size)
           /\ IF _resizePipe[2] # -1
              THEN pipe' = pipe + 1 /\ unseen' = unseen + 1
              ELSE UNCHANGED <<pipe, unseen>>
    /\ UNCHANGED <<parserVars, fieldVars, todo, terminalVars, pc, revents,
                   collected, winsize, woke, drained>>

\* The user gives the terminal window another size.
WindowChange ==
    /\ winsize' \in {<<80, 24>>, <<100, 30>>} \ {winsize}
    /\ UNCHANGED <<parserVars, fieldVars, todo, terminalVars, pc, revents,
                   collected, pipe, woke, drained, unseen, notes>>

\* The descriptors ::poll is given: stdin, and the pipe's read end if open.
Watched == IF _resizePipe[1] # -1 THEN {"stdin", "pipe"} ELSE {"stdin"}

\* poll(): ::poll returns with readable descriptors: the pipe if it holds a
\* byte, stdin if bytes have arrived.
PollWake ==
    /\ pc = "idle"
    /\ \E arrived \in BOOLEAN :
           /\ arrived => stdin # <<>>
           /\ revents' = (IF arrived THEN {"stdin"} ELSE {})
                             \cup (IF pipe > 0 THEN {"pipe"} \cap Watched ELSE {})
    /\ revents' # {}
    /\ collected' = <<>>
    /\ woke' = pipe
    /\ drained' = 0
    /\ pc' = IF "pipe" \in revents' THEN "drain" ELSE "stdin"
    /\ UNCHANGED <<parserVars, fieldVars, todo, terminalVars, pipe, winsize,
                   unseen, notes>>

\* poll(): ::poll returns 0, which it does only with nothing in the pipe;
\* the call returns what timeout() returns.
PollTimedOut ==
    /\ pc = "idle"
    /\ pipe = 0 \/ "pipe" \notin Watched
    /\ PollTimeout

\* poll(): ::poll fails, as it does when a signal interrupts it; the call
\* returns no event.
PollFailed ==
    /\ pc = "idle"
    /\ PollError

\* Mutant of DrainByte: one byte is read and the loop is left.
DrainByteOnly ==
    /\ pc = "drain"
    /\ pipe > 0
    /\ pipe' = pipe - 1
    /\ drained' = drained + 1
    /\ pc' = "ioctl"
    /\ UNCHANGED <<parserVars, fieldVars, todo, terminalVars, revents,
                   collected, winsize, woke, unseen, notes>>

\* while (read(_resizePipe[0], &buf, 1) > 0): a byte is read.
DrainByte ==
    /\ pc = "drain"
    /\ pipe > 0
    /\ pipe' = pipe - 1
    /\ drained' = drained + 1
    /\ UNCHANGED <<parserVars, fieldVars, todo, terminalVars, pc, revents,
                   collected, winsize, woke, unseen, notes>>

\* The read end does not block: read() fails on the empty pipe and the loop
\* ends.
DrainEnd ==
    /\ pc = "drain"
    /\ pipe = 0
    /\ pc' = "ioctl"
    /\ UNCHANGED <<parserVars, fieldVars, todo, terminalVars, revents,
                   collected, pipe, winsize, woke, drained, unseen, notes>>

\* ioctl(STDOUT_FILENO, TIOCGWINSZ, &ws) on the terminal, and the Resize
\* event made of what it reports.
QuerySize ==
    /\ pc = "ioctl"
    /\ collected' = Append(collected, ResizeEvent(winsize[1], winsize[2]))
    /\ unseen' = 0
    /\ pc' = IF "stdin" \in revents THEN "stdin" ELSE "return"
    /\ UNCHANGED <<parserVars, fieldVars, todo, terminalVars, revents, pipe,
                   winsize, woke, drained, notes>>

\* read(_fd, ...) returns the next n bytes of stdin, which are fed to the
\* decoder; its events go behind the ones collected.
ReadStdin ==
    /\ pc = "stdin"
    /\ \E n \in 1..Min(Len(stdin), ReadBufSize) :
           LET data == SubSeq(stdin, 1, n)
               q == feed(Self, data)
           IN  /\ Install(q)
               /\ stdin' = SubSeq(stdin, n + 1, Len(stdin))
               /\ fed' = fed \o data
               /\ collected' = collected \o q.events
               /\ call' = [op |-> "feed", data |-> data]
               /\ pre' = Self
    /\ pc' = "return"
    /\ UNCHANGED <<events, log, timedOut, escTimedOut, fieldVars, todo,
                   terminalVars, revents, pipe, winsize, woke, drained,
                   unseen, notes>>

\* Mutant of PollReturn: the pipe is emptied after the size query.
PollReturnDrains ==
    /\ pc = "return"
    /\ events' = collected
    /\ log' = log \o collected
    /\ todo' = todo \o Handed(collected)
    /\ pc' = "idle"
    /\ pipe' = 0
    /\ UNCHANGED <<decoderMembers, stdin, fed, call, pre, timedOut,
                   escTimedOut, fieldVars, terminalVars, revents, collected,
                   winsize, woke, drained, unseen, notes>>

\* return events
PollReturn ==
    /\ pc = "return"
    /\ events' = collected
    /\ log' = log \o collected
    /\ todo' = todo \o Handed(collected)
    /\ pc' = "idle"
    /\ UNCHANGED <<decoderMembers, stdin, fed, call, pre, timedOut,
                   escTimedOut, fieldVars, terminalVars, revents, collected,
                   pipe, winsize, woke, drained, unseen, notes>>

\* The steps of the polling thread.
Poll ==
    \/ PollWake
    \/ PollTimedOut
    \/ PollFailed
    \/ DrainByte
    \/ DrainEnd
    \/ QuerySize
    \/ ReadStdin
    \/ PollReturn

\* The polling thread with notifications and window changes at any time.
NextResize == Poll \/ NotifyResize \/ WindowChange

\* The polling thread with notifications and window changes between its
\* calls of poll() only.
NextPoll == Poll \/ (pc = "idle" /\ (NotifyResize \/ WindowChange))

\* A freshly constructed editing buffer on which the host will make calls.
StartField(calls) ==
    /\ _buffer = <<>>
    /\ _cursor = 0
    /\ _history = <<>>
    /\ _historyIndex = 0
    /\ _savedLine = <<>>
    /\ _maxHistory = 100
    /\ _killRing = <<>>
    /\ _killRingIndex = 0
    /\ _lastWasKill = FALSE
    /\ _multiline = FALSE
    /\ _maxLines = 0
    /\ todo = calls
    /\ past = <<>>
    /\ made = [op |-> "none"]
    /\ action = "None"
    /\ before = NewField
    /\ earlier = NewField

\* A freshly constructed decoder with the byte stream script still to come.
StartDecoder(script) ==
    /\ _state = NewParser.state
    /\ _paramBuf = NewParser.paramBuf
    /\ _utf8Buf = NewParser.utf8Buf
    /\ _pasteBuf = NewParser.pasteBuf
    /\ _utf8Remaining = NewParser.utf8Remaining
    /\ stdin = script
    /\ fed = <<>>
    /\ events = <<>>
    /\ log = <<>>
    /\ call = [op |-> "none", data |-> <<>>]
    /\ pre = NewParser
    /\ timedOut = FALSE
    /\ escTimedOut = FALSE

\* A freshly constructed TerminalInput, whose decoder will be fed script,
\* on a terminal in its usual mode.
StartParser(script) == StartDecoder(script) /\ StartTerminal(TRUE)

\* A fresh decoder and a fresh editing buffer; every call on the buffer
\* comes from the decoded events.
Start(script) == StartParser(script) /\ StartField(<<>>)

\* The whole byte stream of the behaviour.
Script == fed \o stdin

-----------------------------------------------------------------------------
(* Byte streams *)

\* All sequences over S of length at most n.
RECURSIVE SeqsUpTo(_, _)
SeqsUpTo(S, n) ==
    IF n = 0 THEN {<<>>}
    ELSE LET shorter == SeqsUpTo(S, n - 1)
         IN  shorter \cup {Append(t, b) : t \in shorter, b \in S}

RECURSIVE Concat(_)
Concat(ss) == IF ss = <<>> THEN <<>> ELSE Head(ss) \o Concat(Tail(ss))

\* Complete and truncated input sequences a terminal sends.
Tokens ==
    { <<27>>,                                   \* ESC
      <<97>>,                                   \* a
      <<3>>,                                    \* Ctrl+C
      <<195>>,                                  \* lead byte of U+00E9
      <<169>>,                                  \* its continuation byte
      <<27, 91, 49, 59, 53, 65>>,               \* ESC [ 1 ; 5 A
      <<27, 79, 80>>,                           \* ESC O P
      PasteStart,
      <<97>> \o PasteEnd,                        \* a ESC [ 2 0 1 ~
      <<27, 91, 49>> }                          \* ESC [ 1, truncated

Scripts == {Concat(ts) : ts \in SeqsUpTo(Tokens, MaxTokens)}

Init == \E script \in Scripts : Start(script)

Spec == Init /\ [][Next]_vars

-----------------------------------------------------------------------------
(* tui/InputField.cpp: the UTF-8 encoder, which writes the well-formed      *)
(* encoding of a scalar value.                                             *)

encodeUtf8(cp) ==
    IF cp < 128 THEN <<cp>>
    ELSE IF cp < 2048
    THEN <<BitOr(192, cp \div 64), BitOr(128, BitAnd(cp, 63))>>
    ELSE IF cp < 65536
    THEN <<BitOr(224, cp \div 4096), BitOr(128, BitAnd(cp \div 64, 63)),
           BitOr(128, BitAnd(cp, 63))>>
    ELSE IF cp < 1114112
    THEN <<BitOr(240, cp \div 262144), BitOr(128, BitAnd(cp \div 4096, 63)),
           BitOr(128, BitAnd(cp \div 64, 63)), BitOr(128, BitAnd(cp, 63))>>
    ELSE <<>>

-----------------------------------------------------------------------------
(* Byte streams of one encoded character *)

\* Scalar values >= 0x80 around every boundary of the encoding and of the
\* key-code space: 2-, 3- and 4-byte forms, the BMP limit, the special keys.
Scalars ==
    (128..143) \cup (2040..2055) \cup {233, 8364, 20013, 55295, 57344}
    \cup (65520..65575) \cup {128512, 262144, 1114111}

InitUtf8 == \E cp \in Scalars : Start(encodeUtf8(cp))

SpecUtf8 == InitUtf8 /\ [][Next]_vars

\* The scalar value whose encoding is the byte stream.
ScriptScalar == CHOOSE cp \in Scalars : encodeUtf8(cp) = Script

-----------------------------------------------------------------------------
(* Byte streams of one bracketed paste *)

\* Bytes of pasted text: ESC, '[' and '2' (the head of the end marker, and
\* with 'A' the bytes of the escape sequence ESC [ A).
PasteBytes == {27, 91, 50, 65}

\* s holds t as a contiguous subsequence.
Contains(s, t) ==
    \E i \in 0..(Len(s) - Len(t)) : SubSeq(s, i + 1, i + Len(t)) = t

PasteTexts == {t \in SeqsUpTo(PasteBytes, MaxPaste) : ~Contains(t, PasteEnd)}

InitPaste == \E t \in PasteTexts : Start(PasteStart \o t \o PasteEnd)

SpecPaste == InitPaste /\ [][Next]_vars

\* The pasted text of the byte stream.
ScriptText == SubSeq(Script, Len(PasteStart) + 1, Len(Script) - Len(PasteEnd))

-----------------------------------------------------------------------------
(* Byte streams of one Ctrl+letter, in the legacy and in the Kitty encoding *)

\* The decimal digits of n >= 0 as bytes.
RECURSIVE ToDecimal(_)
ToDecimal(n) ==
    IF n < 10 THEN <<Digit0 + n>>
    ELSE Append(ToDecimal(n \div 10), Digit0 + (n % 10))

Letters == 97..122

\* The control byte a terminal sends for Ctrl+letter.
LegacyCtrl(letter) == <<letter - 96>>

\* ESC [ <letter codepoint> ; 5 u
KittyCtrl(letter) == <<ESC, LBracket>> \o ToDecimal(letter) \o <<Semicolon, 53, 117>>

\* The letters whose control byte is a fixed key: h, i, j, m.
FixedKeyLetters == {104, 105, 106, 109}

InitCtrl ==
    \E letter \in Letters :
        Start(LegacyCtrl(letter)) \/ Start(KittyCtrl(letter))

SpecCtrl == InitCtrl /\ [][Next]_vars

-----------------------------------------------------------------------------
(* Every byte in every state of the decoder *)

\* Byte streams that leave a fresh decoder in each of its states: Ground,
\* Escape, CsiEntry, CsiParam (with a parameter no table knows, and with
\* a private marker), Ss3, Utf8Sequence and PasteBody.
StatePrefixes ==
    { <<>>,
      <<ESC>>,
      <<ESC, LBracket>>,
      <<ESC, LBracket, 49>>,                    \* ESC [ 1
      <<ESC, LBracket, 57, 57>>,                \* ESC [ 9 9
      <<ESC, LBracket, Question, 49>>,          \* ESC [ ? 1
      <<ESC, LetterO>>,
      <<195>>,
      PasteStart }

InitBytes ==
    \E prefix \in StatePrefixes, byte \in 0..255 : Start(prefix \o <<byte>>)

SpecBytes == InitBytes /\ [][Next]_vars

-----------------------------------------------------------------------------
(* Byte streams of one SGR mouse report *)

\* Button fields: every button, modifier and motion bit alone and combined,
\* the scroll values, and values with bits 5 and 7 next to the scroll bit.
MouseButtons ==
    {0, 1, 2, 3, 4, 8, 16, 28, 32, 35, 64, 65, 66, 68, 69, 80, 96, 97, 128, 192}

MouseCoords == {1, 20}

MouseFinals == {77, 109}

\* ESC [ < b ; x ; y final
MouseReport(b, x, y, final) ==
    <<ESC, LBracket, Less>> \o ToDecimal(b) \o <<Semicolon>> \o ToDecimal(x)
        \o <<Semicolon>> \o ToDecimal(y) \o <<final>>

\* ESC [ < b ; x final and ESC [ < b final: fewer than three fields.
ShortMouseReports(b, x, final) ==
    { <<ESC, LBracket, Less>> \o ToDecimal(b) \o <<Semicolon>> \o ToDecimal(x)
          \o <<final>>,
      <<ESC, LBracket, Less>> \o ToDecimal(b) \o <<final>> }

InitMouse ==
    \E b \in MouseButtons, x \in MouseCoords, final \in MouseFinals :
        \/ \E y \in MouseCoords : Start(MouseReport(b, x, y, final))
        \/ \E script \in ShortMouseReports(b, x, final) : Start(script)

SpecMouse == InitMouse /\ [][Next]_vars

-----------------------------------------------------------------------------
(* Byte streams of one CSI key sequence: a cursor key, a "~" key or a       *)
(* Kitty "u" key, with and without a modifier field                        *)

\* ESC [ params final
CsiSeq(params, final) == <<ESC, LBracket>> \o params \o <<final>>

\* first ; m
WithModifier(first, m) == ToDecimal(first) \o <<Semicolon>> \o ToDecimal(m)

\* Final bytes A B C D H F.
CsiLetterFinals == {65, 66, 67, 68, 72, 70}

\* First parameters of "~": the whole table and the numbers it leaves out.
TildeParams == 1..25

\* Key codes of "u": a letter, a two-byte character, Enter.
KittyKeycodes == {97, 233, 13}

\* Modifier fields: 0 and 1 (none), each bit alone, combinations, and values
\* beyond the four bits.
CsiModifierParams == {0, 1, 2, 3, 4, 5, 6, 8, 9, 16, 17, 18}

FinalU == 117

CsiKeyScripts ==
    {CsiSeq(<<>>, final) : final \in CsiLetterFinals}
    \cup {CsiSeq(WithModifier(1, m), final) :
              final \in CsiLetterFinals, m \in CsiModifierParams}
    \cup {CsiSeq(ToDecimal(n), Tilde) : n \in TildeParams}
    \cup {CsiSeq(WithModifier(n, m), Tilde) :
              n \in TildeParams, m \in CsiModifierParams}
    \cup {CsiSeq(ToDecimal(k), FinalU) : k \in KittyKeycodes}
    \cup {CsiSeq(WithModifier(k, m), FinalU) :
              k \in KittyKeycodes, m \in CsiModifierParams}

InitCsiKey == \E script \in CsiKeyScripts : Start(script)

SpecCsiKey == InitCsiKey /\ [][Next]_vars

-----------------------------------------------------------------------------
(* tui/InputField.cpp: the editing buffer.  A field value f is the record   *)
(* of the members; offsets are counted from 0 as in the code, so the byte  *)
(* _buffer[i] is f.buffer[i + 1].                                          *)

\* (c & 0xC0) == 0x80
isContinuation(c) == c >= 128 /\ c <= 191

RECURSIVE SkipForward(_, _)
SkipForward(s, pos) ==
    IF pos < Len(s) /\ isContinuation(s[pos + 1]) THEN SkipForward(s, pos + 1)
    ELSE pos

nextUtf8(s, pos) == IF pos >= Len(s) THEN pos ELSE SkipForward(s, pos + 1)

RECURSIVE SkipBackward(_, _)
SkipBackward(s, pos) ==
    IF pos > 0 /\ isContinuation(s[pos + 1]) THEN SkipBackward(s, pos - 1)
    ELSE pos

prevUtf8(s, pos) == IF pos = 0 THEN 0 ELSE SkipBackward(s, pos - 1)

\* unicode::utf8_grapheme_segmenter, for the characters of the model: the
\* text is read as UTF-8, a byte that does not start a well-formed sequence
\* being a character of its own, and there is a cluster boundary before
\* every character except before a combining mark U+0300..U+036F that
\* follows a non-control character (rule GB9) and between CR and LF (GB3).
SequenceLength(lead) ==
    IF lead >= 240 /\ lead <= 247 THEN 4
    ELSE IF lead >= 224 /\ lead <= 239 THEN 3
    ELSE IF lead >= 192 /\ lead <= 223 THEN 2
    ELSE 1

\* Byte length of the character that starts at offset i of sv.
CharLength(sv, i) ==
    LET n == SequenceLength(sv[i + 1])
    IN  IF i + n <= Len(sv) /\ \A j \in (i + 2)..(i + n) : isContinuation(sv[j])
        THEN n ELSE 1

isExtendAt(sv, i) ==
    /\ CharLength(sv, i) = 2
    /\ \/ sv[i + 1] = 204
       \/ sv[i + 1] = 205 /\ sv[i + 2] <= 175

isControlAt(sv, i) == sv[i + 1] < 32 \/ sv[i + 1] = 127

\* No cluster boundary between the character at prev and the next one at i.
NoBreak(sv, prev, i) ==
    \/ isExtendAt(sv, i) /\ ~isControlAt(sv, prev)
    \/ sv[prev + 1] = 13 /\ sv[i + 1] = 10

\* The offsets at or after i where a cluster of sv starts; prev is the
\* offset of the character before i, -1 when i is 0.
RECURSIVE ClusterStartsFrom(_, _, _)
ClusterStartsFrom(sv, i, prev) ==
    IF i >= Len(sv) THEN {}
    ELSE (IF prev = -1 \/ ~NoBreak(sv, prev, i) THEN {i} ELSE {})
         \cup ClusterStartsFrom(sv, i + CharLength(sv, i), i)

\* The values of it._clusterStart - sv.data() over the segmenter's range.
ClusterStarts(sv) == ClusterStartsFrom(sv, 0, -1)

Max(S) == CHOOSE x \in S : \A y \in S : y <= x

Least(S) == CHOOSE x \in S : \A y \in S : x <= y

nextGraphemeCluster(f, pos) ==
    IF pos >= Len(f.buffer) THEN pos
    ELSE LET sv == SubSeq(f.buffer, pos + 1, Len(f.buffer))
             later == ClusterStarts(sv) \ {0}
         IN  IF later # {} THEN pos + Least(later) ELSE Len(f.buffer)

prevGraphemeCluster(f, pos) ==
    IF pos = 0 THEN 0
    ELSE Max(ClusterStarts(SubSeq(f.buffer, 1, pos)) \cup {0})

\* Mutant of isWordCharAt: a line feed counts as part of a word.
isWordCharAtLineFeed(c) == c # 32 /\ c # 9 /\ c # 13

isWordCharAt(c) == c # 32 /\ c # 9 /\ c # 10 /\ c # 13

\* std::string::erase(pos, n) and std::string::substr(pos, n)
Erase(s, pos, n) == SubSeq(s, 1, pos) \o SubSeq(s, pos + n + 1, Len(s))

Substr(s, pos, n) == SubSeq(s, pos + 1, pos + n)

insertText(f, text) ==
    [f EXCEPT !.buffer = SubSeq(f.buffer, 1, f.cursor) \o text
                             \o SubSeq(f.buffer, f.cursor + 1, Len(f.buffer)),
              !.cursor = f.cursor + Len(text)]

insertCodepoint(f, cp) == insertText(f, encodeUtf8(cp))

\* Mutant of pushKillRing: a full ring gives up its newest entry.
pushKillRingEvictsNewest(f, text) ==
    IF text = <<>> THEN f
    ELSE IF f.lastWasKill /\ f.killRing # <<>>
    THEN [f EXCEPT !.killRing[Len(f.killRing)] = @ \o text]
    ELSE [f EXCEPT !.killRing =
              IF Len(f.killRing) >= MaxKillRing
              THEN Append(SubSeq(f.killRing, 1, MaxKillRing - 1), text)
              ELSE Append(f.killRing, text)]

\* Mutant of pushKillRing: every kill makes an entry of its own.
pushKillRingNeverMerges(f, text) ==
    IF text = <<>> THEN f
    ELSE LET pushed == Append(f.killRing, text)
         IN  [f EXCEPT !.killRing = IF Len(pushed) > MaxKillRing
                                    THEN Tail(pushed) ELSE pushed]

pushKillRing(f, text) ==
    IF text = <<>> THEN f
    ELSE IF f.lastWasKill /\ f.killRing # <<>>
    THEN [f EXCEPT !.killRing[Len(f.killRing)] = @ \o text]
    ELSE LET pushed == Append(f.killRing, text)
         IN  [f EXCEPT !.killRing = IF Len(pushed) > MaxKillRing
                                    THEN Tail(pushed) ELSE pushed]

\* The cursor after "while (_cursor < size && isWordCharAt(...) == word)
\* _cursor = nextUtf8(_buffer, _cursor)".
RECURSIVE ForwardWhile(_, _, _)
ForwardWhile(s, pos, word) ==
    IF pos < Len(s) /\ isWordCharAt(s[pos + 1]) = word
    THEN ForwardWhile(s, nextUtf8(s, pos), word)
    ELSE pos

moveForwardWord(f) ==
    [f EXCEPT !.cursor = ForwardWhile(f.buffer,
                             ForwardWhile(f.buffer, f.cursor, FALSE), TRUE)]

RECURSIVE BackwardWhile(_, _, _)
BackwardWhile(s, pos, word) ==
    IF pos > 0 /\ isWordCharAt(s[prevUtf8(s, pos) + 1]) = word
    THEN BackwardWhile(s, prevUtf8(s, pos), word)
    ELSE pos

moveBackwardWord(f) ==
    [f EXCEPT !.cursor = BackwardWhile(f.buffer,
                             BackwardWhile(f.buffer, f.cursor, FALSE), TRUE)]

killToEnd(f) ==
    LET g == IF f.cursor < Len(f.buffer)
             THEN pushKillRing(
                      [f EXCEPT !.buffer = SubSeq(f.buffer, 1, f.cursor)],
                      SubSeq(f.buffer, f.cursor + 1, Len(f.buffer)))
             ELSE f
    IN  [g EXCEPT !.lastWasKill = TRUE]

killToStart(f) ==
    LET g == IF f.cursor > 0
             THEN pushKillRing(
                      [f EXCEPT !.buffer = Erase(f.buffer, 0, f.cursor),
                                !.cursor = 0],
                      Substr(f.buffer, 0, f.cursor))
             ELSE f
    IN  [g EXCEPT !.lastWasKill = TRUE]

killWord(f) ==
    LET start == f.cursor
        m == moveForwardWord(f)
        g == IF m.cursor > start
             THEN pushKillRing(
                      [m EXCEPT !.buffer = Erase(m.buffer, start, m.cursor - start),
                                !.cursor = start],
                      Substr(m.buffer, start, m.cursor - start))
             ELSE m
    IN  [g EXCEPT !.lastWasKill = TRUE]

killWordBackward(f) ==
    LET end == f.cursor
        m == moveBackwardWord(f)
        g == IF m.cursor < end
             THEN pushKillRing(
                      [m EXCEPT !.buffer = Erase(m.buffer, m.cursor, end - m.cursor)],
                      Substr(m.buffer, m.cursor, end - m.cursor))
             ELSE m
    IN  [g EXCEPT !.lastWasKill = TRUE]

\* Mutant of yank: the oldest entry is inserted, not the newest.
yankOldest(f) ==
    IF f.killRing = <<>> THEN f
    ELSE LET g == [f EXCEPT !.killRingIndex = 0]
         IN  insertText(g, g.killRing[g.killRingIndex + 1])

yank(f) ==
    IF f.killRing = <<>> THEN f
    ELSE LET g == [f EXCEPT !.killRingIndex = Len(f.killRing) - 1]
         IN  insertText(g, g.killRing[g.killRingIndex + 1])

yankPop(f) ==
    IF f.killRing = <<>> THEN f
    ELSE LET prev == f.killRing[f.killRingIndex + 1]
             g == IF f.killRingIndex < Len(f.killRing) /\ f.cursor >= Len(prev)
                  THEN [f EXCEPT !.buffer = Erase(f.buffer, f.cursor - Len(prev),
                                                  Len(prev)),
                                 !.cursor = f.cursor - Len(prev)]
                  ELSE f
             h == [g EXCEPT !.killRingIndex =
                       IF g.killRingIndex = 0 THEN Len(g.killRing) - 1
                       ELSE g.killRingIndex - 1]
         IN  insertText(h, h.killRing[h.killRingIndex + 1])

deleteChar(f) ==
    IF f.cursor >= Len(f.buffer) THEN f
    ELSE LET next == nextGraphemeCluster(f, f.cursor)
         IN  [f EXCEPT !.buffer = Erase(f.buffer, f.cursor, next - f.cursor)]

\* Mutant of deleteCharBackward: one codepoint is removed, not one cluster.
deleteCharBackwardCodepoint(f) ==
    IF f.cursor = 0 THEN f
    ELSE LET prev == prevUtf8(f.buffer, f.cursor)
         IN  [f EXCEPT !.buffer = Erase(f.buffer, prev, f.cursor - prev),
                       !.cursor = prev]

deleteCharBackward(f) ==
    IF f.cursor = 0 THEN f
    ELSE LET prev == prevGraphemeCluster(f, f.cursor)
         IN  [f EXCEPT !.buffer = Erase(f.buffer, prev, f.cursor - prev),
                       !.cursor = prev]

moveToStart(f) == [f EXCEPT !.cursor = 0]

moveToEnd(f) == [f EXCEPT !.cursor = Len(f.buffer)]

moveForwardChar(f) == [f EXCEPT !.cursor = nextGraphemeCluster(f, f.cursor)]

moveBackwardChar(f) == [f EXCEPT !.cursor = prevGraphemeCluster(f, f.cursor)]

\* Mutant of historyPrev: every Up saves the text it leaves.
historyPrevSavesAlways(f) ==
    IF f.history = <<>> THEN f
    ELSE LET g == [f EXCEPT !.savedLine = f.buffer]
         IN  IF g.historyIndex > 0
             THEN [g EXCEPT !.historyIndex = g.historyIndex - 1,
                            !.buffer = g.history[g.historyIndex],
                            !.cursor = Len(g.history[g.historyIndex])]
             ELSE g

\* _history[i] for the 0-based i.  The vector's operator[] checks nothing:
\* with i at or past the end the behaviour is undefined, and the read gives
\* f.beyond, a string that is in no way determined by the members.
HistoryAt(f, i) == IF i < Len(f.history) THEN f.history[i + 1] ELSE f.beyond

historyPrev(f) ==
    IF f.history = <<>> THEN f
    ELSE LET g == IF f.historyIndex = Len(f.history)
                  THEN [f EXCEPT !.savedLine = f.buffer] ELSE f
         IN  IF g.historyIndex > 0
             THEN [g EXCEPT !.historyIndex = g.historyIndex - 1,
                            !.buffer = HistoryAt(g, g.historyIndex - 1),
                            !.cursor = Len(HistoryAt(g, g.historyIndex - 1))]
             ELSE g

\* Mutant of historyNext: Down at the end of the list brings back the saved
\* line as well.
historyNextRestoresAtEnd(f) ==
    IF f.historyIndex >= Len(f.history)
    THEN [f EXCEPT !.buffer = f.savedLine, !.savedLine = <<>>,
                   !.cursor = Len(f.savedLine)]
    ELSE LET i == f.historyIndex + 1
         IN  IF i = Len(f.history)
             THEN [f EXCEPT !.historyIndex = i, !.buffer = f.savedLine,
                            !.savedLine = <<>>, !.cursor = Len(f.savedLine)]
             ELSE [f EXCEPT !.historyIndex = i, !.buffer = f.history[i + 1],
                            !.cursor = Len(f.history[i + 1])]

historyNext(f) ==
    IF f.historyIndex >= Len(f.history) THEN f
    ELSE LET i == f.historyIndex + 1
         IN  IF i = Len(f.history)
             THEN [f EXCEPT !.historyIndex = i, !.buffer = f.savedLine,
                            !.savedLine = <<>>, !.cursor = Len(f.savedLine)]
             ELSE [f EXCEPT !.historyIndex = i, !.buffer = f.history[i + 1],
                            !.cursor = Len(f.history[i + 1])]

transpose(f) ==
    IF f.cursor = 0 \/ Len(f.buffer) < 2 THEN f
    ELSE LET pos == IF f.cursor = Len(f.buffer)
                    THEN prevGraphemeCluster(f, f.cursor) ELSE f.cursor
             prevPos == prevGraphemeCluster(f, pos)
             nextPos == nextGraphemeCluster(f, pos)
             first == Substr(f.buffer, prevPos, pos - prevPos)
             second == Substr(f.buffer, pos, nextPos - pos)
         IN  [f EXCEPT !.buffer = SubSeq(f.buffer, 1, prevPos) \o second \o first
                                      \o SubSeq(f.buffer, nextPos + 1, Len(f.buffer)),
                       !.cursor = nextPos]

clear(f) == [f EXCEPT !.buffer = <<>>, !.cursor = 0]

setText(f, text) == [f EXCEPT !.buffer = text, !.cursor = Len(text)]

\* Mutant of addHistory: an entry equal to the newest one is added again.
addHistoryRepeats(f, entry) ==
    IF entry = <<>> THEN f
    ELSE LET pushed == Append(f.history, entry)
             kept == IF Len(pushed) > f.maxHistory THEN Tail(pushed) ELSE pushed
         IN  [f EXCEPT !.history = kept, !.historyIndex = Len(kept)]

addHistory(f, entry) ==
    IF entry = <<>> THEN f
    ELSE IF f.history # <<>> /\ f.history[Len(f.history)] = entry THEN f
    ELSE LET pushed == Append(f.history, entry)
             kept == IF Len(pushed) > f.maxHistory THEN Tail(pushed) ELSE pushed
         IN  [f EXCEPT !.history = kept, !.historyIndex = Len(kept)]

\* The list after "while (_history.size() > _maxHistory) erase(begin())".
RECURSIVE EraseOldest(_, _)
EraseOldest(h, n) == IF Len(h) > n THEN EraseOldest(Tail(h), n) ELSE h

\* Mutant of setMaxHistory: the newest entries are the ones given up.
setMaxHistoryKeepsOldest(f, n) ==
    [f EXCEPT !.maxHistory = n,
              !.history = SubSeq(f.history, 1, Min(Len(f.history), n))]

setMaxHistory(f, n) ==
    [f EXCEPT !.maxHistory = n, !.history = EraseOldest(f.history, n)]

\* setMultiline and setMaxLines are declared in InputField.hpp and called by
\* the tests; they store their argument in the member.
setMultiline(f, enable) == [f EXCEPT !.multiline = enable]

setMaxLines(f, maxLines) == [f EXCEPT !.maxLines = maxLines]

\* What a handler returns: the members it leaves and the InputFieldAction.
Returned(f, a) == [field |-> f, action |-> a]

NotKill(f) == [f EXCEPT !.lastWasKill = FALSE]

\* Mutant of handleSpecialKey: in multiline mode Enter with Shift or Alt
\* inserts a line feed, however many lines the text has.
handleSpecialKeyInsertsNewline(f, key, ctrl, alt) ==
    CASE key.key = Enter ->
            IF f.multiline /\ (alt \/ hasModifier(key.modifiers, ModShift))
            THEN <<Returned(NotKill(insertText(f, <<10>>)), "Changed")>>
            ELSE <<Returned(NotKill(f), "Submit")>>
      [] key.key = Tab -> <<Returned(NotKill(f), "None")>>
      [] key.key = Escape -> <<Returned(NotKill(f), "None")>>
      [] key.key = Backspace ->
            IF ctrl \/ alt THEN <<Returned(killWordBackward(f), "Changed")>>
            ELSE <<Returned(NotKill(deleteCharBackward(f)), "Changed")>>
      [] key.key = Delete -> <<Returned(NotKill(deleteChar(f)), "Changed")>>
      [] key.key = Up -> <<Returned(NotKill(historyPrev(f)), "Changed")>>
      [] key.key = Down -> <<Returned(NotKill(historyNext(f)), "Changed")>>
      [] key.key = Left ->
            <<Returned(NotKill(IF ctrl THEN moveBackwardWord(f)
                               ELSE moveBackwardChar(f)), "Changed")>>
      [] key.key = Right ->
            <<Returned(NotKill(IF ctrl THEN moveForwardWord(f)
                               ELSE moveForwardChar(f)), "Changed")>>
      [] key.key = Home -> <<Returned(NotKill(moveToStart(f)), "Changed")>>
      [] key.key = End -> <<Returned(NotKill(moveToEnd(f)), "Changed")>>
      [] OTHER -> <<>>

\* handleKey: the switch on key.key; <<>> stands for "default: break".
handleSpecialKey(f, key, ctrl, alt) ==
    CASE key.key = Enter -> <<Returned(NotKill(f), "Submit")>>
      [] key.key = Tab -> <<Returned(NotKill(f), "None")>>
      [] key.key = Escape -> <<Returned(NotKill(f), "None")>>
      [] key.key = Backspace ->
            IF ctrl \/ alt THEN <<Returned(killWordBackward(f), "Changed")>>
            ELSE <<Returned(NotKill(deleteCharBackward(f)), "Changed")>>
      [] key.key = Delete -> <<Returned(NotKill(deleteChar(f)), "Changed")>>
      [] key.key = Up -> <<Returned(NotKill(historyPrev(f)), "Changed")>>
      [] key.key = Down -> <<Returned(NotKill(historyNext(f)), "Changed")>>
      [] key.key = Left ->
            <<Returned(NotKill(IF ctrl THEN moveBackwardWord(f)
                               ELSE moveBackwardChar(f)), "Changed")>>
      [] key.key = Right ->
            <<Returned(NotKill(IF ctrl THEN moveForwardWord(f)
                               ELSE moveForwardChar(f)), "Changed")>>
      [] key.key = Home -> <<Returned(NotKill(moveToStart(f)), "Changed")>>
      [] key.key = End -> <<Returned(NotKill(moveToEnd(f)), "Changed")>>
      [] OTHER -> <<>>

\* Mutant of handleCtrlD: Eof whenever nothing follows the cursor.
handleCtrlDAtEnd(f) ==
    IF f.cursor >= Len(f.buffer) THEN Returned(f, "Eof")
    ELSE Returned(NotKill(deleteChar(f)), "Changed")

\* handleKey: case 'd' under Ctrl.
handleCtrlD(f) ==
    IF f.buffer = <<>> THEN Returned(f, "Eof")
    ELSE Returned(NotKill(deleteChar(f)), "Changed")

\* handleKey: the switch on key.codepoint under Ctrl.
handleCtrlLetter(f, cp) ==
    CASE cp = 97 -> <<Returned(NotKill(moveToStart(f)), "Changed")>>        \* a
      [] cp = 101 -> <<Returned(NotKill(moveToEnd(f)), "Changed")>>         \* e
      [] cp = 102 -> <<Returned(NotKill(moveForwardChar(f)), "Changed")>>   \* f
      [] cp = 98 -> <<Returned(NotKill(moveBackwardChar(f)), "Changed")>>   \* b
      [] cp = 112 -> <<Returned(NotKill(historyPrev(f)), "Changed")>>       \* p
      [] cp = 110 -> <<Returned(NotKill(historyNext(f)), "Changed")>>       \* n
      [] cp = 107 -> <<Returned(killToEnd(f), "Changed")>>                  \* k
      [] cp = 117 -> <<Returned(killToStart(f), "Changed")>>                \* u
      [] cp = 119 -> <<Returned(killWordBackward(f), "Changed")>>           \* w
      [] cp = 121 -> <<Returned(NotKill(yank(f)), "Changed")>>              \* y
      [] cp = 116 -> <<Returned(NotKill(transpose(f)), "Changed")>>         \* t
      [] cp = 100 -> <<handleCtrlD(f)>>                                     \* d
      [] cp = 99 -> <<Returned(f, "Abort")>>                                \* c
      [] OTHER -> <<>>

\* handleKey: the switch on key.codepoint under Alt.
handleAltLetter(f, cp) ==
    CASE cp = 102 -> <<Returned(NotKill(moveForwardWord(f)), "Changed")>>   \* f
      [] cp = 98 -> <<Returned(NotKill(moveBackwardWord(f)), "Changed")>>   \* b
      [] cp = 100 -> <<Returned(killWord(f), "Changed")>>                   \* d
      [] cp = 121 -> <<Returned(NotKill(yankPop(f)), "Changed")>>           \* y
      [] OTHER -> <<>>

handleKey(f, key) ==
    LET ctrl == hasModifier(key.modifiers, ModCtrl)
        alt == hasModifier(key.modifiers, ModAlt)
        special == handleSpecialKey(f, key, ctrl, alt)
        byCtrl == IF ctrl /\ key.codepoint # 0
                  THEN handleCtrlLetter(f, key.codepoint) ELSE <<>>
        byAlt == IF alt /\ key.codepoint # 0
                 THEN handleAltLetter(f, key.codepoint) ELSE <<>>
    IN  IF special # <<>> THEN special[1]
        ELSE IF byCtrl # <<>> THEN byCtrl[1]
        ELSE IF byAlt # <<>> THEN byAlt[1]
        ELSE IF key.codepoint # 0 /\ ~ctrl /\ ~alt /\ isPrintable(key.key)
        THEN Returned(NotKill(insertCodepoint(f, key.codepoint)), "Changed")
        ELSE Returned(f, "None")

\* Mutant of processEvent: an event that is not consumed ends a run of
\* kills all the same.
processEventAlwaysEndsKills(f, event) ==
    IF event.type = "Key" THEN handleKey(f, event)
    ELSE IF event.type = "Paste"
    THEN Returned(NotKill(insertText(f, event.text)), "Changed")
    ELSE Returned(NotKill(f), "None")

\* Mutant of processEvent: a pasted text that holds a carriage return is
\* taken for the Enter key.
processEventPasteSubmits(f, event) ==
    IF event.type = "Key" THEN handleKey(f, event)
    ELSE IF event.type = "Paste"
    THEN IF \E i \in 1..Len(event.text) : event.text[i] = 13
         THEN Returned(NotKill(f), "Submit")
         ELSE Returned(NotKill(insertText(f, event.text)), "Changed")
    ELSE Returned(f, "None")

processEvent(f, event) ==
    IF event.type = "Key" THEN handleKey(f, event)
    ELSE IF event.type = "Paste"
    THEN Returned(NotKill(insertText(f, event.text)), "Changed")
    ELSE Returned(f, "None")

-----------------------------------------------------------------------------
(* The host's calls on the editing buffer (mychat/App.cpp, tests)           *)

\* The editing buffer as the members hold it.
SelfField ==
    [buffer |-> _buffer, cursor |-> _cursor, history |-> _history,
     historyIndex |-> _historyIndex, savedLine |-> _savedLine,
     maxHistory |-> _maxHistory, killRing |-> _killRing,
     killRingIndex |-> _killRingIndex, lastWasKill |-> _lastWasKill,
     multiline |-> _multiline, maxLines |-> _maxLines]

\* The members after a call that left the buffer as g.
InstallField(g) ==
    /\ _buffer' = g.buffer
    /\ _cursor' = g.cursor
    /\ _history' = g.history
    /\ _historyIndex' = g.historyIndex
    /\ _savedLine' = g.savedLine
    /\ _maxHistory' = g.maxHistory
    /\ _killRing' = g.killRing
    /\ _killRingIndex' = g.killRingIndex
    /\ _lastWasKill' = g.lastWasKill
    /\ _multiline' = g.multiline
    /\ _maxLines' = g.maxLines

\* The next call of the host is made; the decoder is not involved.
Called ==
    /\ made' = Head(todo)
    /\ past' = Append(past, Head(todo))
    /\ todo' = Tail(todo)
    /\ before' = SelfField
    /\ earlier' = before
    /\ UNCHANGED <<parserVars, ioVars>>

\* What a read past the end of _history may find in memory.
Beyond == {<<>>, <<63>>}

\* The editing buffer as the members hold it, in a memory where a read past
\* the end of _history finds the string found.
Reading(found) ==
    [buffer |-> _buffer, cursor |-> _cursor, history |-> _history,
     historyIndex |-> _historyIndex, savedLine |-> _savedLine,
     maxHistory |-> _maxHistory, killRing |-> _killRing,
     killRingIndex |-> _killRingIndex, lastWasKill |-> _lastWasKill,
     multiline |-> _multiline, maxLines |-> _maxLines, beyond |-> found]

ProcessEvent ==
    /\ todo # <<>> /\ Head(todo).op = "processEvent"
    /\ \E found \in IF _historyIndex > Len(_history) THEN Beyond ELSE {<<>>} :
           LET r == processEvent(Reading(found), Head(todo).event)
           IN  InstallField(r.field) /\ action' = r.action
    /\ Called

Clear ==
    /\ todo # <<>> /\ Head(todo).op = "clear"
    /\ InstallField(clear(SelfField))
    /\ UNCHANGED action
    /\ Called

SetText ==
    /\ todo # <<>> /\ Head(todo).op = "setText"
    /\ InstallField(setText(SelfField, Head(todo).text))
    /\ UNCHANGED action
    /\ Called

AddHistory ==
    /\ todo # <<>> /\ Head(todo).op = "addHistory"
    /\ InstallField(addHistory(SelfField, Head(todo).entry))
    /\ UNCHANGED action
    /\ Called

SetMaxHistory ==
    /\ todo # <<>> /\ Head(todo).op = "setMaxHistory"
    /\ InstallField(setMaxHistory(SelfField, Head(todo).n))
    /\ UNCHANGED action
    /\ Called

SetMultiline ==
    /\ todo # <<>> /\ Head(todo).op = "setMultiline"
    /\ InstallField(setMultiline(SelfField, Head(todo).enable))
    /\ UNCHANGED action
    /\ Called

SetMaxLines ==
    /\ todo # <<>> /\ Head(todo).op = "setMaxLines"
    /\ InstallField(setMaxLines(SelfField, Head(todo).maxLines))
    /\ UNCHANGED action
    /\ Called

\* App::run on an Enter key: the event is passed to the buffer and, when
\* the buffer answers Submit, the text is added to the history and the
\* buffer is cleared.
HandleEnter ==
    /\ todo # <<>> /\ Head(todo).op = "enter"
    /\ LET r == processEvent(Reading(<<>>), KeyEvent(Enter, ModNone, 0))
       IN  /\ action' = r.action
           /\ IF r.action = "Submit"
              THEN InstallField(clear(addHistory(r.field, r.field.buffer)))
              ELSE InstallField(r.field)
    /\ Called

\* A test drives the buffer with key and paste events only.
NextKeys == ProcessEvent

\* The application's loop over key events, with its handling of Submit.
NextSubmit == ProcessEvent \/ HandleEnter

\* A host drives the buffer with events and with its own calls.
NextField == ProcessEvent \/ Clear \/ SetText \/ AddHistory

\* A host adds history entries and passes key events.
NextHistory == ProcessEvent \/ AddHistory

\* A host fills and resizes the history list.
NextList == AddHistory \/ SetMaxHistory

\* A host fills and resizes the history list, sets and clears the text and
\* passes key events.
NextBrowse == ProcessEvent \/ Clear \/ SetText \/ AddHistory \/ SetMaxHistory

\* A host sets the multiline mode and the line limit and passes events.
NextMultiline == ProcessEvent \/ SetMultiline \/ SetMaxLines

\* The application: poll() decodes the terminal's bytes and every event it
\* returns is passed to the buffer.
NextApp == PollStdin \/ PollTimeout \/ PollError \/ ProcessEvent

\* The calls a host makes.
CallProcessEvent(e) == [op |-> "processEvent", event |-> e]

CallClear == [op |-> "clear"]

CallSetText(text) == [op |-> "setText", text |-> text]

CallAddHistory(entry) == [op |-> "addHistory", entry |-> entry]

CallSetMaxHistory(n) == [op |-> "setMaxHistory", n |-> n]

CallSetMultiline(enable) == [op |-> "setMultiline", enable |-> enable]

CallSetMaxLines(n) == [op |-> "setMaxLines", maxLines |-> n]

\* The events of the tests' helpers charEvent, ctrlEvent, altEvent, keyEvent.
charEvent(ch) == KeyEvent(keyCodeFromCodepoint(ch), ModNone, ch)

ctrlEvent(ch) == KeyEvent(keyCodeFromCodepoint(ch), ModCtrl, ch)

altEvent(ch) == KeyEvent(keyCodeFromCodepoint(ch), ModAlt, ch)

keyEvent(k, mods) == KeyEvent(k, mods, 0)

\* A default-constructed buffer on which calls are made, with no terminal.
StartHost(calls) == StartParser(<<>>) /\ StartField(calls)

-----------------------------------------------------------------------------
(* Call sequences on the editing buffer *)

\* Texts: "a", "b", " ", U+0301 COMBINING ACUTE ACCENT, U+00E9.
TextA == <<97>>
TextB == <<98>>
TextSpace == <<32>>
TextAcute == <<204, 129>>
TextEAcute == <<195, 169>>

\* All sequences of at most n calls out of the set calls.
ScriptsOf(calls, n) == SeqsUpTo(calls, n)

\* Typing, cursor motion, paste and the host's own calls.
CursorCalls ==
    { CallProcessEvent(charEvent(97)),
      CallProcessEvent(charEvent(32)),
      CallProcessEvent(charEvent(769)),
      CallProcessEvent(keyEvent(Home, ModNone)),
      CallProcessEvent(keyEvent(Up, ModNone)),
      CallProcessEvent(altEvent(98)),
      CallProcessEvent(PasteEvent(TextEAcute)),
      CallClear,
      CallSetText(TextA \o TextAcute),
      CallAddHistory(TextA \o TextB) }

InitCursor == \E calls \in ScriptsOf(CursorCalls, MaxCalls) : StartHost(calls)

SpecCursor == InitCursor /\ [][NextField]_vars

\* Typing of one-byte, two-byte and combining characters, cursor motion by
\* cluster and by word, and the three deleting keys.
DeleteCalls ==
    { CallProcessEvent(charEvent(97)),
      CallProcessEvent(charEvent(32)),
      CallProcessEvent(charEvent(233)),
      CallProcessEvent(charEvent(769)),
      CallProcessEvent(keyEvent(Left, ModNone)),
      CallProcessEvent(altEvent(98)),
      CallProcessEvent(keyEvent(Backspace, ModNone)),
      CallProcessEvent(keyEvent(Delete, ModNone)),
      CallProcessEvent(ctrlEvent(100)) }

InitDelete == \E calls \in ScriptsOf(DeleteCalls, MaxCalls) : StartHost(calls)

SpecDelete == InitDelete /\ [][NextKeys]_vars

\* Typing, killing and the host's calls, which fill the text, the kill ring
\* and the history, and the keys Ctrl+C, Ctrl+D and Delete.
AbortCalls ==
    { CallProcessEvent(charEvent(97)),
      CallProcessEvent(keyEvent(Left, ModNone)),
      CallProcessEvent(ctrlEvent(107)),
      CallProcessEvent(ctrlEvent(99)),
      CallProcessEvent(ctrlEvent(100)),
      CallProcessEvent(keyEvent(Delete, ModNone)),
      CallClear,
      CallSetText(TextA \o TextAcute \o TextB),
      CallAddHistory(TextA) }

InitAbort == \E calls \in ScriptsOf(AbortCalls, MaxCalls) : StartHost(calls)

SpecAbort == InitAbort /\ [][NextField]_vars

\* Two kills on the pasted text "ab ab": the cursor is placed, a first kill
\* is made, at most MaxBetween other events follow, then a second kill.
KillEvents ==
    { ctrlEvent(107), ctrlEvent(117), ctrlEvent(119), altEvent(100),
      keyEvent(Backspace, ModAlt), keyEvent(Backspace, ModCtrl) }

\* Character insertion, Backspace and Delete, cursor motion, yank, yank-pop,
\* transpose, history navigation and paste.
EditEvents ==
    { charEvent(120), keyEvent(Backspace, ModNone), keyEvent(Delete, ModNone),
      keyEvent(Left, ModNone), keyEvent(Right, ModNone),
      keyEvent(Home, ModNone), keyEvent(End, ModNone), altEvent(102),
      ctrlEvent(121), altEvent(121), ctrlEvent(116),
      keyEvent(Up, ModNone), keyEvent(Down, ModNone), PasteEvent(TextB) }

PlaceEvents ==
    { <<>>, <<keyEvent(Home, ModNone)>>, <<altEvent(98)>>,
      <<keyEvent(Left, ModNone)>> }

KillScripts ==
    { <<PasteEvent(TextA \o TextB \o TextSpace \o TextA \o TextB)>>
          \o place \o <<k1>> \o between \o <<k2>> :
        place \in PlaceEvents, k1 \in KillEvents,
        between \in SeqsUpTo(EditEvents, MaxBetween), k2 \in KillEvents }

InitKill == \E evs \in KillScripts : StartHost(Handed(evs))

SpecKill == InitKill /\ [][NextKeys]_vars

\* Rounds of typing one letter and killing it with Ctrl+U, each of which
\* pushes one entry: the letters go b, c, a in turn, and the round marked
\* types x.
RoundLetter(i, marked) == IF i = marked THEN 120 ELSE 97 + (i % 3)

Rounds(n, marked) ==
    Concat([i \in 1..n |->
               <<charEvent(RoundLetter(i, marked)), ctrlEvent(117)>>])

\* No round is marked, the first is, or the first to push onto a full ring.
RingScripts ==
    {Rounds(n, marked) : n \in 0..MaxRounds, marked \in {0, 1, MaxKillRing + 1}}

InitRing == \E evs \in RingScripts : StartHost(Handed(evs))

SpecRing == InitRing /\ [][NextKeys]_vars

\* Kills followed by yanks on the pasted text "ab ab": the cursor is placed,
\* a first kill is made, at most MaxBetween other events follow, then a
\* second kill and at most two events of yanking, typing and moving.
YankKillEvents == {ctrlEvent(107), ctrlEvent(117), ctrlEvent(119), altEvent(100)}

YankBetweenEvents == {charEvent(120), keyEvent(Left, ModNone), ctrlEvent(121)}

YankEvents ==
    {ctrlEvent(121), altEvent(121), charEvent(120), keyEvent(Left, ModNone)}

YankPlaceEvents == {<<>>, <<keyEvent(Home, ModNone)>>, <<altEvent(98)>>}

YankScripts ==
    { <<PasteEvent(TextA \o TextB \o TextSpace \o TextA \o TextB)>>
          \o place \o <<k1>> \o between \o <<k2>> \o tail :
        place \in YankPlaceEvents, k1 \in YankKillEvents,
        between \in SeqsUpTo(YankBetweenEvents, MaxBetween),
        k2 \in YankKillEvents, tail \in SeqsUpTo(YankEvents, 2) }

InitYank == \E evs \in YankScripts : StartHost(Handed(evs))

SpecYank == InitYank /\ [][NextKeys]_vars

\* History browsing: the host adds the first n of the entries "a", "b",
\* "ab", a line is typed, and Up and Down are pressed at most MaxNav times.
HistoryEntries == <<TextA, TextB, TextA \o TextB>>

TypedLines == {<<>>, <<120>>, <<120, 121>>}

NavEvents == {keyEvent(Up, ModNone), keyEvent(Down, ModNone)}

HistoryScripts ==
    { [i \in 1..n |-> CallAddHistory(HistoryEntries[i])]
          \o Handed([i \in 1..Len(line) |-> charEvent(line[i])])
          \o Handed(nav) :
        n \in 1..Len(HistoryEntries), line \in TypedLines,
        nav \in SeqsUpTo(NavEvents, MaxNav) }

InitHistory == \E calls \in HistoryScripts : StartHost(calls)

SpecHistory == InitHistory /\ [][NextHistory]_vars

\* The history list filled and resized: entries "a", "b" and the empty one
\* are added, and the maximum is set to 0, 1 and 2.
ListCalls ==
    { CallAddHistory(<<>>), CallAddHistory(TextA), CallAddHistory(TextB),
      CallSetMaxHistory(0), CallSetMaxHistory(1), CallSetMaxHistory(2) }

InitList == \E calls \in ScriptsOf(ListCalls, MaxList) : StartHost(calls)

SpecList == InitList /\ [][NextList]_vars

\* Lines typed, recalled and submitted: the letters a and b, Backspace, Up
\* and Down are pressed, and Enter with the host's submit cycle behind it.
CycleCalls ==
    { CallProcessEvent(charEvent(97)),
      CallProcessEvent(charEvent(98)),
      CallProcessEvent(keyEvent(Backspace, ModNone)),
      CallProcessEvent(keyEvent(Up, ModNone)),
      CallProcessEvent(keyEvent(Down, ModNone)),
      [op |-> "enter"] }

InitSubmit == \E calls \in ScriptsOf(CycleCalls, MaxCycle) : StartHost(calls)

SpecSubmit == InitSubmit /\ [][NextSubmit]_vars

\* The history list browsed while it is filled and resized: entries "a" and
\* "b" are added, the maximum is set to 0 and 1, the text is set and
\* cleared, and Up, Down and a letter are pressed.
BrowseCalls ==
    { CallAddHistory(TextA), CallAddHistory(TextB),
      CallSetMaxHistory(0), CallSetMaxHistory(1),
      CallSetText(TextA), CallClear,
      CallProcessEvent(keyEvent(Up, ModNone)),
      CallProcessEvent(keyEvent(Down, ModNone)),
      CallProcessEvent(charEvent(120)) }

InitBrowse == \E calls \in ScriptsOf(BrowseCalls, MaxCalls) : StartHost(calls)

SpecBrowse == InitBrowse /\ [][NextBrowse]_vars

\* Word motion and word kills on a pasted text of at most MaxWord pieces out
\* of "a", space, line feed, U+00E9 and a lone continuation byte: the cursor
\* is placed and one or two of the word keys are pressed.
TextLineFeed == <<10>>
TextContinuation == <<128>>

WordTexts ==
    { Concat(pieces) :
        pieces \in SeqsUpTo({TextA, TextSpace, TextLineFeed, TextEAcute,
                             TextContinuation}, MaxWord) }

ForwardWordEvents == {altEvent(102), keyEvent(Right, ModCtrl)}

BackwardWordEvents == {altEvent(98), keyEvent(Left, ModCtrl)}

WordEvents ==
    ForwardWordEvents \cup BackwardWordEvents \cup {ctrlEvent(119), altEvent(100)}

WordPlaceEvents ==
    {<<>>, <<keyEvent(Home, ModNone)>>, <<keyEvent(Left, ModNone)>>}

WordScripts ==
    { <<PasteEvent(text)>> \o place \o keys :
        text \in WordTexts, place \in WordPlaceEvents,
        keys \in SeqsUpTo(WordEvents, 2) }

InitWord == \E evs \in WordScripts : StartHost(Handed(evs))

SpecWord == InitWord /\ [][NextKeys]_vars

\* Transposing: "a", U+00E9 and the combining U+0301 are typed, a line feed
\* is pasted, the cursor is moved with Left and Home, and Ctrl+T is pressed.
TransposeEvents ==
    { charEvent(97), charEvent(233), charEvent(769), PasteEvent(TextLineFeed),
      keyEvent(Left, ModNone), keyEvent(Home, ModNone), ctrlEvent(116) }

InitTranspose ==
    \E evs \in SeqsUpTo(TransposeEvents, MaxCalls) : StartHost(Handed(evs))

SpecTranspose == InitTranspose /\ [][NextKeys]_vars

\* Pasting into a buffer in use: "a" is typed, the cursor moved, the text
\* killed, an entry added to the history and recalled, and then a text is
\* pasted: nothing, CR, LF, the bytes of Ctrl+C and Ctrl+D, or "a" CR LF.
PasteSetupCalls ==
    { CallProcessEvent(charEvent(97)),
      CallProcessEvent(keyEvent(Left, ModNone)),
      CallProcessEvent(ctrlEvent(107)),
      CallProcessEvent(keyEvent(Up, ModNone)),
      CallAddHistory(TextB) }

PastedTexts == {<<>>, <<13>>, <<10>>, <<3>>, <<4>>, <<97, 13, 10>>}

PasteCalls ==
    { setup \o <<CallProcessEvent(PasteEvent(text))>> :
        setup \in ScriptsOf(PasteSetupCalls, MaxCalls), text \in PastedTexts }

InitPasteField == \E calls \in PasteCalls : StartHost(calls)

SpecPasteField == InitPasteField /\ [][NextHistory]_vars

\* Mouse and resize events reaching a buffer in use: a press, a wheel step
\* with Ctrl held and a resize, among typing, motion, a kill, history
\* browsing and addHistory.
IgnoredEvents ==
    { MouseEvent("Press", 0, 1, 1, ModNone),
      MouseEvent("ScrollUp", 0, 2, 3, ModCtrl),
      ResizeEvent(80, 24) }

IgnoredCalls ==
    PasteSetupCalls \cup {CallProcessEvent(e) : e \in IgnoredEvents}

InitIgnored == \E calls \in ScriptsOf(IgnoredCalls, MaxCalls) : StartHost(calls)

SpecIgnored == InitIgnored /\ [][NextHistory]_vars

\* Keys pressed where they have nothing to act on: after a setup that types
\* "a", moves left, kills and adds a history entry, one of the deleting,
\* moving, killing, yanking and browsing keys is pressed.
BoundaryEvents ==
    { keyEvent(Backspace, ModNone), keyEvent(Left, ModNone), ctrlEvent(117),
      ctrlEvent(119), keyEvent(Delete, ModNone), keyEvent(Right, ModNone),
      ctrlEvent(107), altEvent(100), ctrlEvent(121), altEvent(121),
      keyEvent(Up, ModNone), keyEvent(Down, ModNone) }

BoundarySetupCalls ==
    { CallProcessEvent(charEvent(97)),
      CallProcessEvent(keyEvent(Left, ModNone)),
      CallProcessEvent(ctrlEvent(107)),
      CallAddHistory(TextB) }

BoundaryCalls ==
    { setup \o <<CallProcessEvent(e)>> :
        setup \in ScriptsOf(BoundarySetupCalls, MaxCalls), e \in BoundaryEvents }

InitBoundary == \E calls \in BoundaryCalls : StartHost(calls)

SpecBoundary == InitBoundary /\ [][NextHistory]_vars

\* Enter in single-line and multiline mode: the host sets the mode and the
\* line limit, "a" is typed, a line feed pasted and the cursor moved, and
\* Enter is pressed once or twice with no modifier, Shift, Alt or Ctrl.
MultilineSetups ==
    { <<>>,
      <<CallSetMultiline(TRUE)>>,
      <<CallSetMultiline(TRUE), CallSetMaxLines(1)>>,
      <<CallSetMultiline(TRUE), CallSetMaxLines(2)>>,
      <<CallSetMaxLines(2)>>,
      <<CallSetMultiline(TRUE), CallSetMultiline(FALSE)>> }

MultilineEdits ==
    {charEvent(97), PasteEvent(TextLineFeed), keyEvent(Left, ModNone)}

EnterEvents ==
    { keyEvent(Enter, ModNone), keyEvent(Enter, ModShift),
      keyEvent(Enter, ModAlt), keyEvent(Enter, ModCtrl) }

MultilineCalls ==
    { setup \o Handed(edits) \o Handed(<<e>>) \o Handed(more) :
        setup \in MultilineSetups,
        edits \in SeqsUpTo(MultilineEdits, MaxCalls),
        e \in EnterEvents, more \in SeqsUpTo(EnterEvents, 1) }

InitMultiline == \E calls \in MultilineCalls : StartHost(calls)

SpecMultiline == InitMultiline /\ [][NextMultiline]_vars

\* Letters with and without Shift as the Kitty keyboard protocol reports
\* them: the lowercase codepoint with the Shift modifier.
shiftEvent(ch) == KeyEvent(keyCodeFromCodepoint(ch), ModShift, ch)

ShiftEvents ==
    { shiftEvent(97), shiftEvent(122), charEvent(97), charEvent(98),
      keyEvent(Left, ModNone) }

InitShift == \E evs \in SeqsUpTo(ShiftEvents, MaxCalls) : StartHost(Handed(evs))

SpecShift == InitShift /\ [][NextKeys]_vars

\* A TerminalInput that the host initializes, shuts down and destroys, on a
\* terminal or with stdin redirected.
InitIo ==
    \E istty \in BOOLEAN :
        StartDecoder(<<>>) /\ StartField(<<>>) /\ StartTerminal(istty)

SpecIo == InitIo /\ [][NextIo]_vars

\* What the terminal sends while the window is resized.
ResizeScripts == {<<>>, <<97>>, <<27, 91, 65>>}

\* A TerminalInput on a terminal after its initialize() has succeeded; no
\* call of poll() has been made yet.
InitResize ==
    LET fresh == [origTermios |-> NewTerminalInput.origTermios,
                  rawMode |-> NewTerminalInput.rawMode,
                  resizePipe |-> NewTerminalInput.resizePipe,
                  tty |-> [istty |-> TRUE, attrs |-> Cooked], fds |-> {},
                  sys |-> <<>>, result |-> "void"]
        t == initialize(fresh, TRUE)
    IN  /\ \E script \in ResizeScripts : StartDecoder(script)
        /\ StartField(<<>>)
        /\ _origTermios = t.origTermios
        /\ _rawMode = t.rawMode
        /\ _resizePipe = t.resizePipe
        /\ tty = t.tty
        /\ fds = t.fds
        /\ sys = t.sys
        /\ ioPast = <<[op |-> "initialize", result |-> t.result]>>
        /\ ioBefore = NewTerminalInput
        /\ stdout = WritesOf(t.sys)
        /\ pc = "idle"
        /\ revents = {}
        /\ collected = <<>>
        /\ pipe = 0
        /\ winsize = <<80, 24>>
        /\ woke = 0
        /\ drained = 0
        /\ unseen = 0
        /\ notes = <<>>

SpecPoll == InitResize /\ [][NextPoll]_vars

SpecResize == InitResize /\ [][NextResize]_vars

\* The host calls poll() again and again, and each call goes on to its
\* return.
SpecResizeLive == SpecResize /\ WF_vars(Poll)

-----------------------------------------------------------------------------
(* The application typing one character: the terminal sends its UTF-8      *)
(* bytes while the host still holds the events of "a", "b" and Left that   *)
(* an earlier poll() returned, so the character arrives with the cursor    *)
(* between "a" and "b".                                                    *)

\* The characters typed: ASCII, and the sample around every encoding
\* boundary.
TypedScalars == {32, 97, 126} \cup Scalars

EarlierEvents ==
    <<charEvent(97), charEvent(98), keyEvent(Left, ModNone)>>

InitType ==
    \E cp \in TypedScalars :
        StartParser(encodeUtf8(cp)) /\ StartField(Handed(EarlierEvents))

SpecType == InitType /\ [][NextApp]_vars

-----------------------------------------------------------------------------
(* Claims about the decoder *)

\* C1: as long as timeout() has not been called, the events returned by the
\* feed() calls made so far, concatenated, and the decoder's members are the
\* ones a fresh decoder has after one feed() of all the bytes fed so far,
\* however the bytes were split into calls.
C1_ChunkedFeedEqualsBatch ==
    ~timedOut =>
        LET batch == feed(NewParser, fed)
        IN  /\ log = batch.events
            /\ Self = [batch EXCEPT !.events = <<>>]

\* ESC [ 1 ; 5 A has been fed in several calls, the last one the final byte
\* alone, and the Ctrl+Up key came out of that last call.
C1_Witness ==
    /\ ~timedOut
    /\ stdin = <<>>
    /\ fed = <<27, 91, 49, 59, 53, 65>>
    /\ call = [op |-> "feed", data |-> <<65>>]
    /\ pre.state = "CsiParam"
    /\ events = <<KeyEvent(Up, ModCtrl, 0)>>

\* C2: a feed() of the single byte ESC in Ground returns no event and leaves
\* the decoder in Escape; a poll() that does not time out leaves it waiting;
\* a timeout() in Escape returns exactly Key(Escape) without modifiers and
\* leaves the decoder in Ground; after any timeout() a further timeout()
\* returns nothing.
C2_LoneEscapeResolvedByTimeout ==
    /\ (call = [op |-> "feed", data |-> <<ESC>>] /\ pre.state = "Ground")
           => (events = <<>> /\ _state = "Escape")
    /\ (call.op = "none" /\ pre.state = "Escape")
           => (events = <<>> /\ _state = "Escape")
    /\ (call.op = "timeout" /\ pre.state = "Escape")
           => (events = <<KeyEvent(Escape, ModNone, 0)>> /\ _state = "Ground")
    /\ call.op = "timeout" => timeout(Self).events = <<>>

\* A lone ESC was fed, a first timeout() resolved it to Key(Escape) and a
\* second timeout() has returned nothing.
C2_Witness ==
    /\ fed = <<ESC>>
    /\ escTimedOut
    /\ call.op = "timeout"
    /\ pre.state = "Ground"
    /\ events = <<>>
    /\ log = <<KeyEvent(Escape, ModNone, 0)>>

C4_Utf8DecodesToScalar ==
    /\ stdin # <<>> => log = <<>>
    /\ stdin = <<>> =>
           /\ Len(log) = 1
           /\ log[1].type = "Key"
           /\ log[1].codepoint = ScriptScalar
           /\ log[1].modifiers = ModNone
           /\ _state = "Ground"

\* The four bytes of U+1F600 have been fed, the last one in a call of its own.
C4_Witness ==
    /\ stdin = <<>>
    /\ fed = <<240, 159, 152, 128>>
    /\ call = [op |-> "feed", data |-> <<128>>]
    /\ events = <<KeyEvent(128512, ModNone, 128512)>>

\* C5: every Key event returned has a non-zero codepoint exactly when its key
\* code is printable.
C5_CodepointIffPrintable ==
    \A i \in 1..Len(events) :
        events[i].type = "Key" =>
            ((events[i].codepoint # 0) <=> isPrintable(events[i].key))

\* C6: the key code of a Key event returned for an encoded character is never
\* one of the special key codes.
C6_TextNeverSpecialKey ==
    \A i \in 1..Len(events) :
        events[i].type = "Key" => events[i].key \notin SpecialKeys

\* The buffers that are not empty.
NonEmptyBuffers ==
    {b \in {"param", "utf8", "paste"} :
        \/ b = "param" /\ _paramBuf # <<>>
        \/ b = "utf8" /\ _utf8Buf # <<>>
        \/ b = "paste" /\ _pasteBuf # <<>>}

C8_TimeoutOutsideEscapeIsNoOp ==
    /\ (call.op = "timeout" /\ pre.state # "Escape")
           => (events = <<>> /\ Self = pre)
    /\ ~escTimedOut =>
           LET batch == feed(NewParser, fed)
           IN  /\ log = batch.events
               /\ Self = [batch EXCEPT !.events = <<>>]

\* timeout() has been called in the middle of ESC [ 1 ; 5 A, with the final
\* byte still to come, and has changed nothing.
C8_Witness ==
    /\ call.op = "timeout"
    /\ ~escTimedOut
    /\ fed = <<27, 91, 49, 59, 53>>
    /\ stdin = <<65>>
    /\ pre.state = "CsiParam"
    /\ _state = "CsiParam" /\ _paramBuf = <<49, 59, 53>>
    /\ events = <<>>

\* C9: once the legacy control byte or the Kitty sequence of Ctrl+letter has
\* been fed to a fresh decoder, for a letter whose control byte is not a
\* fixed key, the one event returned is the Key event with the letter as key
\* code and codepoint and exactly Ctrl as modifiers, the same for both.
C9_CtrlLetterEncodingsAgree ==
    (stdin = <<>> /\ ~escTimedOut) =>
        \A letter \in Letters \ FixedKeyLetters :
            Script \in {LegacyCtrl(letter), KittyCtrl(letter)} =>
                log = <<KeyEvent(letter, ModCtrl, letter)>>

\* ESC [ 9 9 ; 5 u has been fed and has come out as Ctrl+c, which is also
\* what the control byte 0x03 gives.
C9_Witness ==
    /\ stdin = <<>> /\ ~escTimedOut
    /\ fed = KittyCtrl(99)
    /\ log = <<KeyEvent(99, ModCtrl, 99)>>
    /\ feed(NewParser, LegacyCtrl(99)).events = log

\* The fields of the mouse report that is the byte stream, when it has all
\* three.
MouseInputs ==
    [b : MouseButtons, x : MouseCoords, y : MouseCoords, final : MouseFinals]

IsFullReport ==
    \E r \in MouseInputs : Script = MouseReport(r.b, r.x, r.y, r.final)

ScriptReport ==
    CHOOSE r \in MouseInputs : Script = MouseReport(r.b, r.x, r.y, r.final)

\* Shift/Alt/Ctrl from bits 2/3/4 of the button field.
ClaimedMouseModifiers(b) ==
    (IF BitAnd(b, 4) # 0 THEN ModShift ELSE 0)
    + (IF BitAnd(b, 8) # 0 THEN ModAlt ELSE 0)
    + (IF BitAnd(b, 16) # 0 THEN ModCtrl ELSE 0)

\* The type the claim gives a report: the button field with the modifier
\* bits 2..4 cleared is compared with 64 and 65.
ClaimedMouseType(b, final) ==
    LET plain == b - BitAnd(b, 28)
    IN  IF plain = 64 THEN "ScrollUp"
        ELSE IF plain = 65 THEN "ScrollDown"
        ELSE IF BitAnd(b, 32) # 0 THEN "Move"
        ELSE IF final = 109 THEN "Release"
        ELSE "Press"

\* The type with bits 0, 1 and 6 of the button field compared with 64 and 65.
MaskedMouseType(b, final) ==
    LET plain == BitAnd(b, 67)
    IN  IF plain = 64 THEN "ScrollUp"
        ELSE IF plain = 65 THEN "ScrollDown"
        ELSE IF BitAnd(b, 32) # 0 THEN "Move"
        ELSE IF final = 109 THEN "Release"
        ELSE "Press"

\* One Mouse event of type t for the report r: column, row, modifiers, and
\* for Press, Release and Move the button.
IsMouseEventOf(e, r, t) ==
    /\ e.type = "Mouse"
    /\ e.mtype = t
    /\ e.x = r.x /\ e.y = r.y
    /\ e.modifiers = ClaimedMouseModifiers(r.b)
    /\ t \in {"Press", "Release", "Move"} => e.button = r.b % 4

\* C10 (as claimed): a report with three fields returns exactly one Mouse
\* event with the claimed type (scroll when the button field without its
\* modifier bits is 64 or 65), position, modifiers and button; a report with
\* fewer fields returns nothing.
C10_MouseScrollIgnoringModifiers ==
    (stdin = <<>> /\ ~escTimedOut) =>
        IF IsFullReport
        THEN /\ Len(log) = 1
             /\ IsMouseEventOf(log[1], ScriptReport,
                    ClaimedMouseType(ScriptReport.b, ScriptReport.final))
        ELSE log = <<>>

\* C10 (amended): as claimed, but the type is ScrollUp or ScrollDown when
\* bits 0, 1 and 6 of the button field alone make 64 or 65, whatever the
\* modifier bits, the motion bit 5 and the bits above bit 6 are.
C10_MouseReportDecoded ==
    (stdin = <<>> /\ ~escTimedOut) =>
        IF IsFullReport
        THEN /\ Len(log) = 1
             /\ IsMouseEventOf(log[1], ScriptReport,
                    MaskedMouseType(ScriptReport.b, ScriptReport.final))
        ELSE log = <<>>

\* ESC [ < 9 6 ; 2 0 ; 1 M has been fed: motion bit and scroll bit together
\* come out as ScrollUp.
C10_Witness ==
    /\ stdin = <<>> /\ ~escTimedOut
    /\ IsFullReport
    /\ ScriptReport = [b |-> 96, x |-> 20, y |-> 1, final |-> 77]
    /\ log = <<MouseEvent("ScrollUp", 0, 20, 1, ModNone)>>

-----------------------------------------------------------------------------
\* The key claimed for a final byte A B C D H F.
ClaimedLetterKey(final) ==
    CASE final = 65 -> Up
      [] final = 66 -> Down
      [] final = 67 -> Right
      [] final = 68 -> Left
      [] final = 72 -> Home
      [] final = 70 -> End

\* The first parameters of "~" the claim lists, in its order, and their keys.
ClaimedTildeParams == <<1, 2, 3, 4, 5, 6, 11, 12, 13, 14, 15, 17, 18, 19, 20, 21, 23, 24>>
ClaimedTildeKeys ==
    <<Home, Insert, Delete, End, PageUp, PageDown,
      F1, F2, F3, F4, F5, F6, F7, F8, F9, F10, F11, F12>>

\* The modifiers claimed for a modifier field m: the low four bits of m - 1.
ClaimedCsiModifiers(m) == IF m <= 1 THEN 0 ELSE (m - 1) % 16

\* The log is one Key event of a special key with the given modifiers.
IsSpecialKeyLog(key, mods) == log = <<KeyEvent(key, mods, 0)>>

\* C11: once a standard CSI key sequence has been fed to a fresh decoder (no
\* timeout having hit the lone ESC), the events returned are exactly one Key
\* event with the mapped special key and the modifiers of the second
\* parameter m (the bitmask m - 1, none when m is absent or at most 1); a
\* CSI u sequence gives one Key event with the same modifier decoding.
C11_CsiKeysAndModifiers ==
    (stdin = <<>> /\ ~escTimedOut) =>
        /\ \A final \in CsiLetterFinals :
              /\ Script = CsiSeq(<<>>, final) =>
                     IsSpecialKeyLog(ClaimedLetterKey(final), 0)
              /\ \A m \in CsiModifierParams :
                     Script = CsiSeq(WithModifier(1, m), final) =>
                         IsSpecialKeyLog(ClaimedLetterKey(final),
                                         ClaimedCsiModifiers(m))
        /\ \A i \in 1..Len(ClaimedTildeParams) :
              /\ Script = CsiSeq(ToDecimal(ClaimedTildeParams[i]), Tilde) =>
                     IsSpecialKeyLog(ClaimedTildeKeys[i], 0)
              /\ \A m \in CsiModifierParams :
                     Script = CsiSeq(WithModifier(ClaimedTildeParams[i], m), Tilde) =>
                         IsSpecialKeyLog(ClaimedTildeKeys[i],
                                         ClaimedCsiModifiers(m))
        /\ \A k \in KittyKeycodes :
              /\ Script = CsiSeq(ToDecimal(k), FinalU) =>
                     (Len(log) = 1 /\ log[1].type = "Key" /\ log[1].modifiers = 0)
              /\ \A m \in CsiModifierParams :
                     Script = CsiSeq(WithModifier(k, m), FinalU) =>
                         /\ Len(log) = 1
                         /\ log[1].type = "Key"
                         /\ log[1].modifiers = ClaimedCsiModifiers(m)

\* ESC [ 1 7 ; 6 ~ has been fed in two reads and has come out as F6 with
\* Shift and Ctrl.
C11_Witness ==
    /\ stdin = <<>> /\ ~escTimedOut
    /\ fed = CsiSeq(WithModifier(17, 6), Tilde)
    /\ Len(call.data) < Len(fed)
    /\ log = <<KeyEvent(F6, BitOr(ModShift, ModCtrl), 0)>>

-----------------------------------------------------------------------------
(* Claims about the editing buffer *)

\* The offsets of s that are not inside a UTF-8 sequence.
CodepointBoundaries(s) ==
    {i \in 0..Len(s) : i = Len(s) \/ ~isContinuation(s[i + 1])}

\* The offsets of s where a grapheme cluster starts or the text ends.
ClusterBoundaries(s) == ClusterStarts(s) \cup {Len(s)}

\* C12: after any sequence of processEvent, clear, setText and addHistory
\* calls the cursor is between 0 and the byte length of the text and lies
\* on a codepoint boundary and on a grapheme-cluster boundary of the text.
C12_CursorOnClusterBoundary ==
    /\ 0 <= _cursor /\ _cursor <= Len(_buffer)
    /\ _cursor \in CodepointBoundaries(_buffer)
    /\ _cursor \in ClusterBoundaries(_buffer)

-----------------------------------------------------------------------------
\* The last call was processEvent with the event e.
Processed(e) == made = CallProcessEvent(e)

\* The text and the cursor once the bytes from offset lo up to offset hi of
\* the text before the call are gone and every other byte is kept.
RemovedSpan(lo, hi, cursor) ==
    /\ _buffer = SubSeq(before.buffer, 1, lo)
                     \o SubSeq(before.buffer, hi + 1, Len(before.buffer))
    /\ _cursor = cursor

\* The cluster boundaries of the text before the call that lie before and
\* after the cursor of before the call.
BoundariesBefore == {i \in ClusterBoundaries(before.buffer) : i < before.cursor}

BoundariesAfter == {i \in ClusterBoundaries(before.buffer) : i > before.cursor}

\* C13: when the cursor was on a cluster boundary, Backspace has removed
\* exactly the cluster that ended at the cursor and moved the cursor to its
\* start; Delete, and Ctrl+D on a non-empty text, have removed exactly the
\* cluster that started at the cursor and left the cursor; nothing is
\* removed at the start, respectively the end, of the text.
C13_DeleteOneCluster ==
    before.cursor \in ClusterBoundaries(before.buffer) =>
        /\ Processed(keyEvent(Backspace, ModNone)) =>
              IF BoundariesBefore = {}
              THEN RemovedSpan(0, 0, 0)
              ELSE RemovedSpan(Max(BoundariesBefore), before.cursor,
                               Max(BoundariesBefore))
        /\ (\/ Processed(keyEvent(Delete, ModNone))
            \/ Processed(ctrlEvent(100)) /\ before.buffer # <<>>) =>
              IF BoundariesAfter = {}
              THEN RemovedSpan(before.cursor, before.cursor, before.cursor)
              ELSE RemovedSpan(before.cursor, Least(BoundariesAfter),
                               before.cursor)

\* Backspace after "a" and a combining acute accent has removed both, the
\* three bytes of one cluster, and left the space before them.
C13_Witness ==
    /\ Processed(keyEvent(Backspace, ModNone))
    /\ before.buffer = TextSpace \o TextA \o TextAcute
    /\ before.cursor = 4
    /\ _buffer = TextSpace
    /\ _cursor = 1

-----------------------------------------------------------------------------
\* C14: whenever processEvent has been called with a Key event whose
\* codepoint is a scalar value of at least 0x20 and that carries neither
\* Ctrl nor Alt, it has returned Changed, the text is the text before the
\* cursor, the UTF-8 encoding of the codepoint and the text after the
\* cursor, and the cursor has advanced by the length of the encoding.
C14_CharacterInserted ==
    (/\ made.op = "processEvent"
     /\ made.event.type = "Key"
     /\ made.event.codepoint >= 32
     /\ ~hasModifier(made.event.modifiers, ModCtrl)
     /\ ~hasModifier(made.event.modifiers, ModAlt)) =>
        LET utf8 == encodeUtf8(made.event.codepoint)
        IN  /\ action = "Changed"
            /\ _buffer = SubSeq(before.buffer, 1, before.cursor) \o utf8
                             \o SubSeq(before.buffer, before.cursor + 1,
                                       Len(before.buffer))
            /\ _cursor = before.cursor + Len(utf8)

-----------------------------------------------------------------------------
\* The last call left text, cursor, history and kill ring as they were.
ContentUnchanged ==
    /\ _buffer = before.buffer
    /\ _cursor = before.cursor
    /\ _history = before.history
    /\ _historyIndex = before.historyIndex
    /\ _savedLine = before.savedLine
    /\ _killRing = before.killRing
    /\ _killRingIndex = before.killRingIndex

\* What the Delete key does in the state before the last call.
AfterDelete == processEvent(before, keyEvent(Delete, ModNone))

\* C15: Ctrl+C has returned Abort whatever the buffer held; Ctrl+D has
\* returned Eof exactly when the text was empty, and on a non-empty text it
\* has returned Changed with the text and the cursor the Delete key gives;
\* Abort and Eof have left text, cursor, history and kill ring unchanged.
C15_AbortAndEof ==
    /\ Processed(ctrlEvent(99)) => action = "Abort" /\ ContentUnchanged
    /\ Processed(ctrlEvent(100)) =>
          /\ action = "Eof" <=> before.buffer = <<>>
          /\ before.buffer = <<>> => ContentUnchanged
          /\ before.buffer # <<>> =>
                /\ action = "Changed"
                /\ AfterDelete.action = "Changed"
                /\ _buffer = AfterDelete.field.buffer
                /\ _cursor = AfterDelete.field.cursor

\* Ctrl+D at the end of a non-empty text, with an entry in the kill ring and
\* one in the history, has returned Changed and removed nothing.
C15_Witness ==
    /\ Processed(ctrlEvent(100))
    /\ action = "Changed"
    /\ before.buffer # <<>>
    /\ before.cursor = Len(before.buffer)
    /\ _buffer = before.buffer
    /\ (_killRing # <<>> \/ _history # <<>>)

-----------------------------------------------------------------------------
\* The call is a kill operation: Ctrl+K, Ctrl+U, Ctrl+W, Alt+D, or Backspace
\* with Alt or Ctrl.
IsKillCall(c) == c.op = "processEvent" /\ c.event \in KillEvents

\* The call is one of the non-kill edits.
IsEditCall(c) ==
    c.op = "processEvent" /\ (c.event \in EditEvents \/ c.event.type = "Paste")

\* The last call was a kill operation that removed text.
KilledText ==
    /\ past # <<>>
    /\ IsKillCall(past[Len(past)])
    /\ Len(_buffer) < Len(before.buffer)

\* The text the last call removed: it lay at the cursor the call left.
Removed ==
    SubSeq(before.buffer, _cursor + 1,
           _cursor + Len(before.buffer) - Len(_buffer))

\* The call before the last was a kill operation.
FollowsKill == Len(past) >= 2 /\ IsKillCall(past[Len(past) - 1])

\* A non-kill edit was processed after the kill before the last call.
EditSinceKill ==
    \E j \in 1..(Len(past) - 1) :
        /\ IsKillCall(past[j])
        /\ \A i \in (j + 1)..(Len(past) - 1) : ~IsKillCall(past[i])
        /\ \E i \in (j + 1)..(Len(past) - 1) : IsEditCall(past[i])

AppendedToNewest ==
    /\ before.killRing # <<>>
    /\ _killRing = [before.killRing EXCEPT ![Len(before.killRing)] = @ \o Removed]

PushedAsNewest ==
    _killRing = IF Len(before.killRing) < MaxKillRing
                THEN Append(before.killRing, Removed)
                ELSE Append(Tail(before.killRing), Removed)

\* C16 (as claimed): a kill operation that removed text has appended it to
\* the newest kill-ring entry when the call before it was a kill operation,
\* and has made it a new newest entry when a non-kill edit was processed
\* since the kill before it.
C16_KillAppendsAfterKill ==
    KilledText =>
        /\ FollowsKill => AppendedToNewest
        /\ EditSinceKill => PushedAsNewest

\* C16 (amended): as claimed, but a kill that follows a kill operation
\* appends to the newest entry only when the ring has one; when the ring is
\* still empty, because no kill has removed anything yet, the text becomes
\* its first entry.
C16_KillAppendsToExistingEntry ==
    KilledText =>
        /\ FollowsKill =>
              IF before.killRing = <<>> THEN _killRing = <<Removed>>
              ELSE AppendedToNewest
        /\ EditSinceKill => PushedAsNewest

\* After Alt+B on "ab ab", Ctrl+K has killed "ab" and Ctrl+U right after it
\* "ab ", which went to the end of the same entry.
C16_Witness ==
    /\ KilledText /\ FollowsKill
    /\ Len(past) = 4
    /\ made = CallProcessEvent(ctrlEvent(117))
    /\ _killRing = <<TextA \o TextB \o TextA \o TextB \o TextSpace>>
    /\ _buffer = <<>>

-----------------------------------------------------------------------------
\* The last call was a kill that pushed an entry of its own.
PushedEntry == KilledText /\ ~FollowsKill

\* C17: the kill ring holds at most 16 entries and no empty one, and a new
\* entry pushed onto a ring of 16 has removed the oldest entry and kept the
\* others in their order, with the new one last.
C17_KillRingBounded ==
    /\ Len(_killRing) <= 16
    /\ \A i \in 1..Len(_killRing) : _killRing[i] # <<>>
    /\ (PushedEntry /\ Len(before.killRing) = 16) =>
          /\ Len(_killRing) = 16
          /\ \A i \in 1..15 : _killRing[i] = before.killRing[i + 1]
          /\ _killRing[16] = Removed

\* The seventeenth kill, of the marked letter x, has pushed "x" onto a ring
\* of 16 whose oldest entry "b" differed from the next, "c".
C17_Witness ==
    /\ PushedEntry
    /\ Len(past) = 34
    /\ Len(before.killRing) = 16
    /\ before.killRing[1] = <<98>> /\ before.killRing[2] = <<99>>
    /\ _killRing[1] = <<99>> /\ _killRing[16] = <<120>>

-----------------------------------------------------------------------------
\* The last call was Ctrl+Y and the call before it one of the kills Ctrl+K,
\* Ctrl+U, Ctrl+W and Alt+D; earlier holds the members before that kill and
\* before the members between the kill and the yank.
YankedAfterKill ==
    /\ Len(past) >= 2
    /\ past[Len(past)] = CallProcessEvent(ctrlEvent(121))
    /\ past[Len(past) - 1].event \in YankKillEvents

\* C18 (as claimed): a kill immediately followed by Ctrl+Y has restored
\* the text to what it was before the kill.
C18_KillYankRestores == YankedAfterKill => _buffer = earlier.buffer

\* The kill before the last call made a kill-ring entry of the text it
\* removed: it removed text, and the kill-merge flag was clear or the ring
\* empty.
KillMadeEntry ==
    /\ Len(before.buffer) < Len(earlier.buffer)
    /\ ~earlier.lastWasKill \/ earlier.killRing = <<>>

\* C18 (amended): a kill that removed text and made a kill-ring entry of its
\* own, immediately followed by Ctrl+Y, has restored the text to what it
\* was before the kill; a kill that removed nothing, or whose text was
\* appended to the entry of the kill before it, has not: Ctrl+Y has
\* inserted the whole newest entry at the cursor.
C18_NewEntryKillYankRestores ==
    YankedAfterKill =>
        /\ KillMadeEntry => _buffer = earlier.buffer
        /\ before.killRing # <<>> =>
              _buffer = SubSeq(before.buffer, 1, before.cursor)
                           \o before.killRing[Len(before.killRing)]
                           \o SubSeq(before.buffer, before.cursor + 1,
                                     Len(before.buffer))

\* After Alt+B on "ab ab" and Ctrl+K, a typed x and Ctrl+U have followed:
\* Ctrl+U has killed "ab x" into an entry of its own and Ctrl+Y has put it
\* back.
C18_Witness ==
    /\ YankedAfterKill /\ KillMadeEntry
    /\ past[Len(past) - 1] = CallProcessEvent(ctrlEvent(117))
    /\ Len(earlier.killRing) = 1
    /\ Len(_killRing) = 2
    /\ earlier.buffer = TextA \o TextB \o TextSpace \o <<120>>
    /\ before.buffer = <<>>
    /\ _buffer = earlier.buffer

-----------------------------------------------------------------------------
\* The last call was Alt+Y on a kill ring that is not empty.
YankPopped ==
    /\ past # <<>>
    /\ past[Len(past)] = CallProcessEvent(altEvent(121))
    /\ before.killRing # <<>>

\* The call before the last was Ctrl+Y or Alt+Y.
FollowsYank ==
    /\ Len(past) >= 2
    /\ past[Len(past) - 1].event \in {ctrlEvent(121), altEvent(121)}

\* The entry the yank or yank-pop before the last call inserted.
YankedText == before.killRing[before.killRingIndex + 1]

\* Before the last call the text right before the cursor was the entry
\* inserted by a yank or yank-pop made just before.
HeldYankedText ==
    /\ FollowsYank
    /\ before.cursor >= Len(YankedText)
    /\ SubSeq(before.buffer, before.cursor - Len(YankedText) + 1,
              before.cursor) = YankedText

\* The text once the n bytes before the old cursor are replaced by the
\* kill-ring entry the ring cursor now points to.
ReplacedBeforeCursor(n) ==
    _buffer = SubSeq(before.buffer, 1, before.cursor - n)
                 \o _killRing[_killRingIndex + 1]
                 \o SubSeq(before.buffer, before.cursor + 1, Len(before.buffer))

\* C19: Alt+Y has removed bytes only when the bytes right before the cursor
\* were the text inserted by the yank or yank-pop before it, and then
\* exactly those; otherwise it has removed nothing.  In both cases it has
\* inserted a kill-ring entry at the cursor, after a yank or yank-pop the
\* next older one, the newest after the oldest.
C19_YankPopRemovesOnlyYankedText ==
    YankPopped =>
        /\ IF HeldYankedText THEN ReplacedBeforeCursor(Len(YankedText))
           ELSE ReplacedBeforeCursor(0)
        /\ FollowsYank =>
              _killRingIndex = IF before.killRingIndex = 0
                               THEN Len(_killRing) - 1
                               ELSE before.killRingIndex - 1

-----------------------------------------------------------------------------
IsAddCall(c) == c.op = "addHistory"

IsTypeCall(c) ==
    c.op = "processEvent" /\ c.event.type = "Key" /\ c.event.codepoint # 0

IsNavCall(c) == c.op = "processEvent" /\ c.event \in NavEvents

\* The entries added so far, the line typed so far and the Up and Down keys
\* pressed so far.
AddedEntries == [i \in 1..Len(SelectSeq(past, IsAddCall)) |->
                    SelectSeq(past, IsAddCall)[i].entry]

TypedLine == [i \in 1..Len(SelectSeq(past, IsTypeCall)) |->
                 SelectSeq(past, IsTypeCall)[i].event.codepoint]

PressedNav == [i \in 1..Len(SelectSeq(past, IsNavCall)) |->
                  SelectSeq(past, IsNavCall)[i].event.key]

\* The place in the list h1..hn the keys lead to, counted from 0 for h1; n
\* stands for the line in progress.  Up goes one down to 0 at most, Down
\* one up to n at most.
RECURSIVE Browsed(_, _)
Browsed(keys, n) ==
    IF keys = <<>> THEN n
    ELSE LET at == Browsed(SubSeq(keys, 1, Len(keys) - 1), n)
         IN  IF keys[Len(keys)] = Up
             THEN (IF at > 0 THEN at - 1 ELSE 0)
             ELSE (IF at < n THEN at + 1 ELSE n)

\* The text the claim has on show.
Shown ==
    LET n == Len(AddedEntries)
        at == Browsed(PressedNav, n)
    IN  IF at = n THEN TypedLine ELSE AddedEntries[at + 1]

-----------------------------------------------------------------------------
\* The last call made on the buffer.
LastCall == past[Len(past)]

\* The last n elements of h, all of them when h has fewer.
Newest(h, n) == SubSeq(h, Len(h) - Min(Len(h), n) + 1, Len(h))

\* sub can be had from full by leaving elements out.
RECURSIVE IsSubsequence(_, _)
IsSubsequence(sub, full) ==
    IF sub = <<>> THEN TRUE
    ELSE IF full = <<>> THEN FALSE
    ELSE IF Head(sub) = Head(full) THEN IsSubsequence(Tail(sub), Tail(full))
    ELSE IsSubsequence(sub, Tail(full))

\* addHistory was called last with an entry that is neither empty nor the
\* newest entry of the list.
AddedNewEntry ==
    /\ past # <<>>
    /\ LastCall.op = "addHistory"
    /\ LastCall.entry # <<>>
    /\ before.history = <<>> \/ before.history[Len(before.history)] # LastCall.entry

\* C21: after any sequence of addHistory and setMaxHistory calls the history
\* has no empty entry and no two adjacent equal entries, is no longer than
\* the configured maximum, and holds entries in the order they were added:
\* an addHistory of an empty entry or of the newest entry again changes
\* nothing, another entry goes to the end, and onto a full list with the
\* oldest entry given up; setMaxHistory keeps the newest entries in order.
C21_HistoryListInvariant ==
    /\ \A i \in 1..Len(_history) : _history[i] # <<>>
    /\ \A i \in 1..(Len(_history) - 1) : _history[i] # _history[i + 1]
    /\ Len(_history) <= _maxHistory
    /\ IsSubsequence(_history, AddedEntries)
    /\ past # <<>> /\ LastCall.op = "addHistory" =>
          _history = IF ~AddedNewEntry THEN before.history
                     ELSE IF Len(before.history) < before.maxHistory
                     THEN Append(before.history, LastCall.entry)
                     ELSE Tail(Append(before.history, LastCall.entry))
    /\ past # <<>> /\ LastCall.op = "setMaxHistory" =>
          /\ _maxHistory = LastCall.n
          /\ _history = Newest(before.history, LastCall.n)

\* With the maximum at 2 and the list "a", "b" full, "a" has been added: "a"
\* the oldest is gone and the list is "b", "a".
C21_Witness ==
    /\ AddedNewEntry
    /\ before.maxHistory = 2
    /\ before.history = <<TextA, TextB>>
    /\ LastCall.entry = TextA
    /\ _history = <<TextB, TextA>>

-----------------------------------------------------------------------------
\* Space, tab, carriage return or line feed.
IsWhitespace(c) == c \in {32, 9, 13, 10}

\* The offset reached from pos by going forward over the bytes that are
\* whitespace (ws = TRUE) or are not (ws = FALSE).
RECURSIVE PastRunForward(_, _, _)
PastRunForward(s, pos, ws) ==
    IF pos < Len(s) /\ IsWhitespace(s[pos + 1]) = ws
    THEN PastRunForward(s, pos + 1, ws) ELSE pos

RECURSIVE PastRunBackward(_, _, _)
PastRunBackward(s, pos, ws) ==
    IF pos > 0 /\ IsWhitespace(s[pos]) = ws
    THEN PastRunBackward(s, pos - 1, ws) ELSE pos

\* Past the whitespace, then past what is not whitespace.
ForwardWordEnd(s, pos) == PastRunForward(s, PastRunForward(s, pos, TRUE), FALSE)

BackwardWordStart(s, pos) ==
    PastRunBackward(s, PastRunBackward(s, pos, TRUE), FALSE)

\* The last call passed the event e to the buffer.
Pressed(e) == past # <<>> /\ LastCall = CallProcessEvent(e)

\* The text span is on the kill ring as its newest entry or as the end of
\* it, the older entries being as before; an empty span leaves the ring.
OnKillRing(span) ==
    IF span = <<>> THEN _killRing = before.killRing
    ELSE \/ _killRing = Append(before.killRing, span)
         \/ /\ before.killRing # <<>>
            /\ _killRing = [before.killRing EXCEPT
                               ![Len(before.killRing)] = @ \o span]

\* What the claim says of the last key, the text and cursor before it being
\* s and c.
WordKeyDone(s, c) ==
    /\ \A e \in ForwardWordEvents : Pressed(e) =>
          /\ _cursor = ForwardWordEnd(s, c)
          /\ _buffer = s /\ _killRing = before.killRing
    /\ \A e \in BackwardWordEvents : Pressed(e) =>
          /\ _cursor = BackwardWordStart(s, c)
          /\ _buffer = s /\ _killRing = before.killRing
    /\ Pressed(ctrlEvent(119)) =>
          LET start == BackwardWordStart(s, c)
          IN  /\ _buffer = SubSeq(s, 1, start) \o SubSeq(s, c + 1, Len(s))
              /\ _cursor = start
              /\ OnKillRing(SubSeq(s, start + 1, c))
    /\ Pressed(altEvent(100)) =>
          LET end == ForwardWordEnd(s, c)
          IN  /\ _buffer = SubSeq(s, 1, c) \o SubSeq(s, end + 1, Len(s))
              /\ _cursor = c
              /\ OnKillRing(SubSeq(s, c + 1, end))

NoContinuationAfterWhitespace(s) ==
    \A i \in 1..(Len(s) - 1) : IsWhitespace(s[i]) => ~isContinuation(s[i + 1])

-----------------------------------------------------------------------------
\* The text s with its clusters [p1, p2) and [p2, p3) swapped.
Swapped(s, p1, p2, p3) ==
    SubSeq(s, 1, p1) \o SubSeq(s, p2 + 1, p3) \o SubSeq(s, p1 + 1, p2)
        \o SubSeq(s, p3 + 1, Len(s))

\* The cluster boundary of s next before and next after the offset c.
BoundaryBefore(s, c) == Max({b \in ClusterBoundaries(s) : b < c})

BoundaryAfter(s, c) == Least({b \in ClusterBoundaries(s) : b > c})

\* C23: Ctrl+T with the cursor at 0 or with fewer than two clusters in the
\* text changes neither text nor cursor; with the cursor at the end it
\* swaps the last two clusters and the cursor stays at the end; with the
\* cursor between two clusters it swaps them and puts the cursor after the
\* pair.  The byte length of the text is the same in every case.
C23_TransposeSwapsClusters ==
    Pressed(ctrlEvent(116)) =>
        LET s == before.buffer
            c == before.cursor
        IN  /\ Len(_buffer) = Len(s)
            /\ c = 0 \/ Cardinality(ClusterStarts(s)) < 2 =>
                  _buffer = s /\ _cursor = c
            /\ c = Len(s) /\ Cardinality(ClusterStarts(s)) >= 2 =>
                  LET last == BoundaryBefore(s, c)
                  IN  /\ _buffer = Swapped(s, BoundaryBefore(s, last), last, c)
                      /\ _cursor = c
            /\ c > 0 /\ c < Len(s) /\ c \in ClusterBoundaries(s) =>
                  /\ _buffer = Swapped(s, BoundaryBefore(s, c), c,
                                       BoundaryAfter(s, c))
                  /\ _cursor = BoundaryAfter(s, c)

-----------------------------------------------------------------------------
\* The last call passed a Paste event to the buffer.
Pasted ==
    /\ past # <<>>
    /\ LastCall.op = "processEvent"
    /\ LastCall.event.type = "Paste"

\* C24: a Paste event with any text returns Changed; the text is then the
\* text before the cursor, the pasted text and the text after the cursor,
\* the cursor is right after the pasted text, and the kill ring and the
\* history are as before.
C24_PasteInsertsVerbatim ==
    Pasted =>
        /\ action = "Changed"
        /\ _buffer = SubSeq(before.buffer, 1, before.cursor)
                        \o LastCall.event.text
                        \o SubSeq(before.buffer, before.cursor + 1,
                                  Len(before.buffer))
        /\ _cursor = before.cursor + Len(LastCall.event.text)
        /\ _killRing = before.killRing
        /\ _killRingIndex = before.killRingIndex
        /\ _history = before.history
        /\ _historyIndex = before.historyIndex
        /\ _savedLine = before.savedLine

\* "a" CR LF has been pasted in front of the last "a" of the text "aa",
\* with "b" in the history.
C24_Witness ==
    /\ Pasted
    /\ LastCall.event.text = <<97, 13, 10>>
    /\ before.buffer = <<97, 97>>
    /\ before.cursor = 1
    /\ before.history = <<TextB>>
    /\ _buffer = <<97, 97, 13, 10, 97>>
    /\ _cursor = 4
    /\ action = "Changed"

-----------------------------------------------------------------------------
\* The last call passed a Mouse or a Resize event to the buffer.
PassedMouseOrResize ==
    /\ past # <<>>
    /\ LastCall.op = "processEvent"
    /\ LastCall.event.type \in {"Mouse", "Resize"}

\* C25: a Mouse or Resize event passed to processEvent returns None and
\* leaves the text, the cursor, the kill ring, the kill-merge flag, the
\* history and the place in the history as they were.
C25_MouseAndResizeIgnored ==
    PassedMouseOrResize =>
        /\ action = "None"
        /\ SelfField = before

\* A mouse event has arrived right after Ctrl+K killed "a": the kill-merge
\* flag is still set.
C25_Witness ==
    /\ PassedMouseOrResize
    /\ LastCall.event.type = "Mouse"
    /\ before.lastWasKill
    /\ _lastWasKill
    /\ _killRing = <<TextA>>

-----------------------------------------------------------------------------
\* One of the events es was passed last.
PressedOneOf(es) == \E e \in es : Pressed(e)

\* The last key was pressed where it has nothing to act on.
PressedAtBoundary ==
    \/ /\ before.cursor = 0
       /\ PressedOneOf({keyEvent(Backspace, ModNone), keyEvent(Left, ModNone),
                        ctrlEvent(117), ctrlEvent(119)})
    \/ /\ before.cursor = Len(before.buffer)
       /\ PressedOneOf({keyEvent(Delete, ModNone), keyEvent(Right, ModNone),
                        ctrlEvent(107), altEvent(100)})
    \/ /\ before.killRing = <<>>
       /\ PressedOneOf({ctrlEvent(121), altEvent(121)})
    \/ /\ before.history = <<>>
       /\ PressedOneOf({keyEvent(Up, ModNone), keyEvent(Down, ModNone)})

-----------------------------------------------------------------------------
\* The number of lines of the text s: one more than its line feeds.
LineCount(s) == 1 + Cardinality({i \in 1..Len(s) : s[i] = 10})

\* The last call passed Enter with the modifiers mods.
PressedEnter(mods) == Pressed(keyEvent(Enter, mods))

\* The line limit stands against one more line in the text s.
AtLineLimit(f) == f.maxLines > 0 /\ LineCount(f.buffer) >= f.maxLines

\* The text before the last call with a line feed put in at the cursor.
WithNewline ==
    SubSeq(before.buffer, 1, before.cursor) \o <<10>>
        \o SubSeq(before.buffer, before.cursor + 1, Len(before.buffer))

\* C27: in multiline mode Enter without modifiers returns Submit and leaves
\* the text as it is, and Enter with Shift or with Alt, the line limit
\* allowing, puts a line feed in at the cursor and returns Changed; with
\* multiline mode off Enter returns Submit whatever modifiers are held.
C27_EnterInMultilineMode ==
    /\ PressedEnter(ModNone) =>
          action = "Submit" /\ _buffer = before.buffer
    /\ \A mods \in {ModShift, ModAlt} :
          PressedEnter(mods) /\ before.multiline /\ ~AtLineLimit(before) =>
              /\ action = "Changed"
              /\ _buffer = WithNewline
              /\ _cursor = before.cursor + 1
    /\ \A mods \in {ModNone, ModShift, ModAlt, ModCtrl} :
          PressedEnter(mods) /\ ~before.multiline =>
              action = "Submit" /\ _buffer = before.buffer

-----------------------------------------------------------------------------
\* The text before the last call with the byte c put in at the cursor.
WithLetter(c) ==
    SubSeq(before.buffer, 1, before.cursor) \o <<c>>
        \o SubSeq(before.buffer, before.cursor + 1, Len(before.buffer))

\* C29: a key event with a lowercase letter and the Shift modifier alone
\* puts the uppercase letter into the text at the cursor, and the same
\* letter without a modifier goes in as it is.
C29_ShiftLetterCapitalizes ==
    \A c \in 97..122 :
        /\ Pressed(shiftEvent(c)) =>
              _buffer = WithLetter(c - 32) /\ _cursor = before.cursor + 1
        /\ Pressed(charEvent(c)) =>
              _buffer = WithLetter(c) /\ _cursor = before.cursor + 1

-----------------------------------------------------------------------------
\* The last call on the TerminalInput was shutdown(), by name or from the
\* destructor.
ShutDown ==
    /\ ioPast # <<>>
    /\ ioPast[Len(ioPast)].op \in {"shutdown", "~TerminalInput"}

\* Before the last call, initialize() had succeeded and no shutdown() had
\* followed it.
Initialized ==
    \E i \in 1..(Len(ioPast) - 1) :
        /\ ioPast[i] = [op |-> "initialize", result |-> "ok"]
        /\ \A j \in (i + 1)..(Len(ioPast) - 1) : ioPast[j].op = "initialize"

\* The arguments of the system calls named name that the last call made,
\* in their order.
Made(name) ==
    LET calls == SelectSeq(sys, LAMBDA c : c.call = name)
    IN  [i \in 1..Len(calls) |-> calls[i].arg]

\* C30: the first shutdown() after a successful initialize() writes the four
\* disabling sequences, sets the terminal to the saved mode once, closes
\* both ends of the resize pipe and makes no other system call; any other
\* shutdown(), the destructor's included, makes no system call at all.
\* Either way the TerminalInput is then out of raw mode with no pipe.
C30_ShutdownIdempotent ==
    ShutDown =>
        /\ ~_rawMode
        /\ _resizePipe = <<-1, -1>>
        /\ Initialized =>
              /\ Made("write") = <<DisableBracketedPaste, DisableSgrMouse,
                                   DisableMouseTracking, DisableCsiU>>
              /\ Made("tcsetattr") = <<ioBefore.origTermios>>
              /\ tty.istty => tty.attrs = ioBefore.origTermios
              /\ Made("close") = <<ioBefore.resizePipe[1],
                                   ioBefore.resizePipe[2]>>
              /\ ioBefore.resizePipe[1] # ioBefore.resizePipe[2]
              /\ {ioBefore.resizePipe[1], ioBefore.resizePipe[2]} \cap fds = {}
              /\ Len(sys) = 7
        /\ ~Initialized => sys = <<>>

\* On a terminal, initialize() succeeded, shutdown() put the terminal back
\* into its usual mode, and the destructor then made no system call.
C30_Witness ==
    /\ ioPast = <<[op |-> "initialize", result |-> "ok"],
                  [op |-> "shutdown", result |-> "void"],
                  [op |-> "~TerminalInput", result |-> "void"]>>
    /\ tty = [istty |-> TRUE, attrs |-> Cooked]
    /\ fds = {}
    /\ sys = <<>>

-----------------------------------------------------------------------------
\* The last call on the TerminalInput was initialize().
InitializeDone == ioPast # <<>> /\ ioPast[Len(ioPast)].op = "initialize"

\* What the last call returned.
Result == ioPast[Len(ioPast)].result

\* In the last call pipe() failed.
PipeFailed == Made("pipe") = <<<<-1, -1>>>>

\* In the last call the switch to raw mode was tried and its tcgetattr()
\* and tcsetattr() failed, stdin being no terminal.
RawModeFailed == Made("tcgetattr") # <<>> /\ ~tty.istty

\* C31: an initialize() in which pipe() or the switch to raw mode fails
\* returns an error, writes no enabling sequence and leaves the
\* TerminalInput not marked as being in raw mode.
C31_InitializeFailureIsExplicit ==
    InitializeDone /\ (PipeFailed \/ RawModeFailed) =>
        /\ Result = "IoError"
        /\ Made("write") = <<>>
        /\ ~_rawMode

-----------------------------------------------------------------------------
\* The sequence that switches off what the enabling sequence e switched on.
Counterpart(e) ==
    CASE e = EnableCsiU -> DisableCsiU
      [] e = EnableMouseTracking -> DisableMouseTracking
      [] e = EnableSgrMouse -> DisableSgrMouse
      [] e = EnableBracketedPaste -> DisableBracketedPaste

\* The counterparts of the sequences in es, last to first.
ReverseCounterparts(es) ==
    [i \in 1..Len(es) |-> Counterpart(es[Len(es) + 1 - i])]

\* The places in the system calls of the last call where name was called.
Places(name) == {i \in 1..Len(sys) : sys[i].call = name}

\* C32: a successful initialize() writes the sequences for the extended
\* keyboard, basic mouse tracking, SGR mouse and bracketed paste, in this
\* order; the shutdown() that follows writes their counterparts in the
\* reverse order, and sets the terminal mode only after all four.
C32_DisableInReverseOrder ==
    LET enabling == <<EnableCsiU, EnableMouseTracking, EnableSgrMouse,
                      EnableBracketedPaste>>
    IN  /\ InitializeDone /\ Result = "ok" => Made("write") = enabling
        /\ ShutDown /\ Initialized =>
              /\ Made("write") = ReverseCounterparts(enabling)
              /\ Places("tcsetattr") # {}
              /\ \A w \in Places("write"), m \in Places("tcsetattr") : w < m

\* On a terminal, a successful initialize() has been followed by a
\* shutdown() that wrote four sequences, the first of them the one that
\* switches bracketed paste off.
C32_Witness ==
    /\ ioPast = <<[op |-> "initialize", result |-> "ok"],
                  [op |-> "shutdown", result |-> "void"]>>
    /\ tty.istty
    /\ Len(Made("write")) = 4
    /\ sys[1] = SysCall("write", DisableBracketedPaste)

-----------------------------------------------------------------------------
\* The place of the last time the sequence data was written to the terminal.
LastWritten(data) ==
    CHOOSE i \in 1..Len(stdout) :
        stdout[i] = data /\ \A j \in (i + 1)..Len(stdout) : stdout[j] # data

\* initialize() switched basic mouse tracking on before SGR mouse.
TrackingEnabledFirst ==
    LastWritten(EnableMouseTracking) < LastWritten(EnableSgrMouse)

\* shutdown() switched basic mouse tracking off before SGR mouse.
TrackingDisabledFirst ==
    LastWritten(DisableMouseTracking) < LastWritten(DisableSgrMouse)

\* C33: the shutdown() that follows a successful initialize() switches the
\* two mouse modes off in the order in which initialize() switched them on.
C33_MouseModesDisabledInEnablingOrder ==
    ShutDown /\ Initialized => (TrackingEnabledFirst <=> TrackingDisabledFirst)

\* C33, amended: the shutdown() that follows a successful initialize()
\* switches the two mouse modes off in the reverse of the order in which
\* initialize() switched them on.
C33_MouseModesDisabledInReverseOrder ==
    ShutDown /\ Initialized => (TrackingEnabledFirst <=> ~TrackingDisabledFirst)

\* Eight sequences have gone to the terminal in an initialize() and the
\* shutdown() after it: basic mouse tracking was switched on second and off
\* third.
C33_Witness ==
    /\ ShutDown /\ Initialized
    /\ Len(stdout) = 8
    /\ stdout[2] = EnableMouseTracking
    /\ stdout[7] = DisableMouseTracking

-----------------------------------------------------------------------------
\* The Resize events among evs.
Resizes(evs) == SelectSeq(evs, LAMBDA e : e.type = "Resize")

\* poll() is about to return what it collected.
Returning == pc = "return"

-----------------------------------------------------------------------------
\* The events among evs that come from input bytes.
Inputs(evs) == SelectSeq(evs, LAMBDA e : e.type # "Resize")

\* A notification not yet followed by a size query has its byte in the
\* pipe, or poll() is on its way to the query.
NoWakeUpLost == unseen > 0 => pipe > 0 \/ pc \in {"drain", "ioctl"}

\* Past the size query, the Resize event is among the events to return.
ResizeCollected ==
    pc \in {"stdin", "return"} /\ "pipe" \in revents =>
        Len(Resizes(collected)) = 1

\* No byte of the terminal's stream is dropped, and a poll() that found
\* stdin readable returns the events of the bytes it read, decoded in the
\* state the decoder was in.
NoInputLost ==
    /\ fed \o stdin \in ResizeScripts
    /\ Returning /\ "stdin" \in revents =>
          /\ call.op = "feed"
          /\ call.data # <<>>
          /\ Inputs(collected) = feed(pre, call.data).events

\* poll() has returned a Resize event and no notification has been written
\* since the size query.
Answered == pc = "idle" /\ unseen = 0 /\ Resizes(events) # <<>>

-----------------------------------------------------------------------------
\* The last call fed one byte to the decoder in the state state.
FedOne(state) ==
    /\ call.op = "feed"
    /\ Len(call.data) = 1
    /\ pre.state = state

\* The bare Escape key.
EscapeKey == KeyEvent(Escape, ModNone, 0)

\* A byte for which the Escape state has no meaning of its own.
PassedOn(byte) ==
    /\ byte \notin {LBracket, LetterO, 13, 10}
    /\ ~(byte >= 32 /\ byte < 127)

\* In the Escape state a byte without a meaning of its own gives the bare
\* Escape key and then what the same byte gives in the Ground state.
EscapeThenGround ==
    FedOne("Escape") /\ PassedOn(call.data[1]) =>
        LET ground == processGround([pre EXCEPT !.state = "Ground"],
                                    call.data[1])
        IN  /\ events = <<EscapeKey>> \o ground.events
            /\ _state = ground.state
            /\ _utf8Buf = ground.utf8Buf
            /\ _utf8Remaining = ground.utf8Remaining

\* The terminal has sent ESC ESC and nothing else, and no poll timed out.
FedEscEsc == fed = <<ESC, ESC>> /\ stdin = <<>> /\ ~timedOut

\* C36: in the Escape state a byte that is none of '[', 'O', CR, LF and the
\* printable ASCII bytes gives one bare Escape key followed by what Ground
\* gives for the byte; the two bytes ESC ESC give two Escape keys.
C36_EscapeRedispatch ==
    /\ EscapeThenGround
    /\ FedEscEsc => log = <<EscapeKey, EscapeKey>>

\* C36, amended: as above, but the two bytes ESC ESC give one Escape key
\* and leave the decoder in the Escape state, and the timeout() that follows
\* gives the second.
C36_EscapeRedispatchLeavesEscapePending ==
    /\ EscapeThenGround
    /\ FedEscEsc => log = <<EscapeKey>> /\ _state = "Escape"
    /\ fed = <<ESC, ESC>> /\ call.op = "timeout" /\ pre.state = "Escape" =>
          /\ events = <<EscapeKey>>
          /\ _state = "Ground"

\* ESC ESC has been fed, byte by byte.
C36_Witness ==
    /\ FedOne("Escape")
    /\ call.data = <<ESC>>
    /\ FedEscEsc
    /\ events = <<EscapeKey>>

-----------------------------------------------------------------------------
\* enum class State
States ==
    {"Ground", "Escape", "CsiEntry", "CsiParam", "Ss3", "PasteBody",
     "Utf8Sequence"}

\* The last call fed one byte to the decoder inside a CSI sequence.
FedOneInCsi == FedOne("CsiEntry") \/ FedOne("CsiParam")

\* The byte the last call fed, when it fed one.
FedByte == call.data[1]

IsParameterByte(byte) ==
    (byte >= 48 /\ byte <= 57) \/ byte \in {Semicolon, Less, Greater, Question}

IsIntermediateByte(byte) == byte >= 32 /\ byte <= 47

IsFinalByte(byte) == byte >= 64 /\ byte <= 126

\* The parameter texts of the sequences fed: none, "1", "99" and "?1".  A
\* final byte after text stands for no key when no table has the byte, when
\* the text has a private marker and the byte is not 'u', when the byte is
\* '~' and the text is no number of the '~' table, or when the byte is 'u'
\* and the text is no key code.
Unrecognised(text, byte) ==
    CASE byte \in {65, 66, 67, 68, 70, 72} -> text = <<Question, 49>>
      [] byte = Tilde -> text \in {<<>>, <<57, 57>>, <<Question, 49>>}
      [] byte = 117 -> text \in {<<>>, <<49>>, <<Question, 49>>}
      [] OTHER -> TRUE

\* C37: the decoder is in one of its seven states after every call, with
\* every byte 0..255 fed in every state.  In a CSI sequence a byte that is
\* no parameter, intermediate or final byte, and a final byte that stands
\* for no key, leave the decoder in Ground without an event; so does a byte
\* after ESC O that is none of A, B, C, D, H, F, P, Q, R, S.
C37_DecoderIsTotal ==
    /\ _state \in States
    /\ \A i \in 1..Len(events) : events[i].type \in {"Key", "Mouse", "Paste"}
    /\ FedOneInCsi /\ ~IsParameterByte(FedByte) /\ ~IsIntermediateByte(FedByte)
          /\ ~IsFinalByte(FedByte) =>
          _state = "Ground" /\ events = <<>>
    /\ FedOneInCsi /\ IsFinalByte(FedByte)
          /\ Unrecognised(pre.paramBuf, FedByte) =>
          _state = "Ground" /\ events = <<>>
    /\ FedOne("Ss3")
          /\ FedByte \notin {65, 66, 67, 68, 72, 70, 80, 81, 82, 83} =>
          _state = "Ground" /\ events = <<>>

\* The byte ':' has been fed after ESC [ 1.
C37_Witness ==
    /\ FedOne("CsiParam")
    /\ pre.paramBuf = <<49>>
    /\ FedByte = 58
    /\ _state = "Ground"
    /\ events = <<>>

-----------------------------------------------------------------------------
\* The last call passed Up to a buffer with history entries, which reads
\* the entry before the browsing position if there is one.
UpReads ==
    /\ Pressed(keyEvent(Up, ModNone))
    /\ before.history # <<>>
    /\ before.historyIndex > 0

\* The last call passed Down to a buffer whose browsing position was before
\* the last entry, which reads the entry after the position.
DownReads ==
    /\ Pressed(keyEvent(Down, ModNone))
    /\ before.historyIndex + 1 < Len(before.history)

\* C38: the browsing position is never greater than the number of history
\* entries, and the entry that Up or Down reads is one of the list.
C38_HistoryIndexInRange ==
    /\ _historyIndex <= Len(_history)
    /\ UpReads => before.historyIndex - 1 < Len(before.history)
    /\ DownReads => before.historyIndex + 1 < Len(before.history)

-----------------------------------------------------------------------------
\* The call c passed a letter to the buffer.
IsTyping(c) ==
    c \in {CallProcessEvent(charEvent(97)), CallProcessEvent(charEvent(98))}

\* Up to the call at place last, the host went through a submit cycle and
\* the user has only typed since.
TypedSinceSubmit(last) ==
    \E k \in 1..last :
        /\ past[k].op = "enter"
        /\ \A j \in (k + 1)..last : IsTyping(past[j])

\* The first Up after a submit cycle has just been pressed.
UpAfterSubmit ==
    /\ Pressed(keyEvent(Up, ModNone))
    /\ TypedSinceSubmit(Len(past) - 1)

\* Down has just been pressed right after the first Up after a submit
\* cycle.
DownAfterUpAfterSubmit ==
    /\ Pressed(keyEvent(Down, ModNone))
    /\ Len(past) >= 2
    /\ past[Len(past) - 1] = CallProcessEvent(keyEvent(Up, ModNone))
    /\ TypedSinceSubmit(Len(past) - 2)

\* C39: after a submit cycle (Enter, addHistory of the text, clear) and
\* whatever came before it, the next Up saves the line typed since and shows
\* the newest history entry, and Down right after it brings the line back.
C39_SubmitResetsBrowsing ==
    /\ UpAfterSubmit /\ before.history # <<>> =>
          /\ _buffer = before.history[Len(before.history)]
          /\ _savedLine = before.buffer
    /\ DownAfterUpAfterSubmit /\ earlier.history # <<>> =>
          _buffer = earlier.buffer

-----------------------------------------------------------------------------
\* C40: after a shutdown(), whatever calls of initialize() and shutdown()
\* came before it, the terminal is in the mode it had before the first
\* initialize() and no descriptor of a resize pipe is open.
C40_ShutdownRestoresAll ==
    ShutDown =>
        /\ tty.attrs = Cooked
        /\ fds = {}

====
